---- MODULE Spec2Model ----
(***************************************************************************)
(* Model of the ecobee-manager service: the JWT credential manager         *)
(* (ecobee_auth_jwt.py), the temperature controller                        *)
(* (temperature_controller.py), the schedule engine (schedule_engine.py),  *)
(* the health/status sink (health_server.py) and the service loop          *)
(* (ecobee_service_jwt.py).                                                *)
(*                                                                         *)
(* Time is in whole seconds.  Temperatures reported by the vendor are in   *)
(* tenths of a degree Fahrenheit, as on the wire.  Python's None is the    *)
(* empty sequence and a present value v is <<v>>.                          *)
(***************************************************************************)
EXTENDS Integers, Sequences, FiniteSets, TLC

VARIABLES
    now,                \* wall clock, seconds (datetime.now())
    pc,                 \* position of the main thread
    ret,                \* who called refresh_token(): where it returns to
    rv,                 \* return value of refresh_token()
    got,                \* return value of get_token()
    attempt,            \* refresh_token(): loop variable `attempt`
    sleep_i,            \* run(): iterations of the sleep loop done so far
    running,            \* EcobeeServiceJWT.running
    auth,               \* EcobeeAuthJWT: jwt_token, token_expires_at, last_refreshed
    store,              \* the credential file data/.ecobee_jwt.json
    next_token,         \* the Authenticator: the next token the portal hands out
    login_at,           \* observation: time of the last successful login of this process
    ctrl_token,         \* TemperatureController.access_token
    consecutive_errors, \* EcobeeServiceJWT.consecutive_errors
    recent_reverts,     \* EcobeeServiceJWT.recent_reverts (deque, maxlen 60)
    stats,              \* HealthServer.stats
    hstate,             \* HealthServer.state
    schedule,           \* ScheduleEngine: schedule by day and default_temperature
    vendor_temp,        \* the thermostat's current setpoint at the vendor, tenths
    expected_temp,      \* check_and_update_temperature: local expected_temp
    current_temp,       \* check_and_update_temperature: local current_temp
    cyc,                \* observation: what the current loop cycle has done so far
    arg,                \* input of the pure function under check
    res,                \* its result
    schedule_file       \* the schedule file config/schedule.json

vars == <<now, pc, ret, rv, got, attempt, sleep_i, running, auth, store, next_token, login_at,
          ctrl_token, consecutive_errors, recent_reverts, stats, hstate,
          schedule, vendor_temp, expected_temp, current_temp, cyc, arg, res,
          schedule_file>>

(***************************************************************************)
(* Bounds of the model.                                                    *)
(***************************************************************************)
\* the service specification runs for this many seconds
LoopHorizon == 170
\* the service specification with fairness runs for this many seconds
LiveHorizon == 130
\* CHECK_INTERVAL_MINUTES of the environment the service is run with
\* (10 when it is not set)
CheckIntervalMinutes == 1
\* the credential specification runs for this many seconds
AuthHorizon == 4000
\* the credential specification makes at most this many login attempts
MaxLogins == 6
\* the clock never passes MaxNow
MaxNow == 140000
\* the Authenticator hands out at most this many tokens
MaxTokens == 3
\* temperatures_match is checked for settings up to this far from 68.0 F, tenths
MatchSpan == 12
\* the correction history is followed over this many hold commands
MaxHolds == 62
\* of which at most this many fail
MaxFailedHolds == 2
\* a day of a schedule file declares at most this many entries
MaxEntries == 3
\* the reload of the schedule is followed over this many check cycles
MaxReloads == 3
\* the vendor reports at most this many events of a thermostat
MaxEvents == 2
\* a thermostat has at most this many remote sensors
MaxSensors == 3

\* setpoints somebody can set at the thermostat, in tenths of a degree
VendorTemps == {680, 704}

(***************************************************************************)
(* Program constants.                                                      *)
(***************************************************************************)
TOKEN_LIFETIME == 3600
REFRESH_BUFFER == 300
\* refresh_token() looping once too often
MAX_RETRIES_one_more == 3 + 1
MAX_RETRIES == 3
SELENIUM_TIMEOUT == 30
API_TIMEOUT == 10
ERROR_THRESHOLD == 3
RETRY_SLEEP == 60
REVERTS_MAXLEN == 60
DEFAULT_TEMPERATURE == 68
\* TEMPERATURE_TOLERANCE = 0.5 F, in tenths of a degree
TEMPERATURE_TOLERANCE == 5

(***************************************************************************)
(* Optional values.                                                        *)
(***************************************************************************)
None == << >>
Some(v) == << v >>
IsNone(o) == o = << >>
Val(o) == o[1]

Abs(x) == IF x < 0 THEN 0 - x ELSE x
Min(a, b) == IF a <= b THEN a ELSE b

\* 2 ** n of refresh_token's backoff
RECURSIVE Pow2(_)
Pow2(n) == IF n = 0 THEN 1 ELSE 2 * Pow2(n - 1)

(***************************************************************************)
(* datetime.isoformat() / datetime.fromisoformat(): a timestamp is written *)
(* as its date part and its time-of-day part and parsed back from them.    *)
(***************************************************************************)
isoformat(t) == << t \div 86400, t % 86400 >>
fromisoformat(s) == s[1] * 86400 + s[2]

(***************************************************************************)
(* EcobeeAuthJWT                                                           *)
(***************************************************************************)
NoAuth == [jwt_token |-> None, token_expires_at |-> None, last_refreshed |-> None]

AbsentFile == [kind |-> "absent", jwt_token |-> None,
               token_expires_at |-> None, last_refreshed |-> None]
CorruptFile == [kind |-> "corrupt", jwt_token |-> None,
                token_expires_at |-> None, last_refreshed |-> None]

\* needs_refresh() with the sign of the buffer wrong: refresh only once the
\* credential is REFRESH_BUFFER seconds past its expiry
needs_refresh_late(a, t) ==
    IF IsNone(a.token_expires_at)
    THEN TRUE
    ELSE (Val(a.token_expires_at) - t) < 0 - REFRESH_BUFFER

\* needs_refresh() with <= for <
needs_refresh_inclusive(a, t) ==
    IF IsNone(a.token_expires_at)
    THEN TRUE
    ELSE (Val(a.token_expires_at) - t) <= REFRESH_BUFFER

\* needs_refresh(): no expiry known, or less than REFRESH_BUFFER seconds left
needs_refresh(a, t) ==
    IF IsNone(a.token_expires_at)
    THEN TRUE
    ELSE (Val(a.token_expires_at) - t) < REFRESH_BUFFER

\* is_token_valid()
is_token_valid(a, t) ==
    IF IsNone(a.token_expires_at) \/ IsNone(a.jwt_token)
    THEN FALSE
    ELSE t < Val(a.token_expires_at)

\* the json document save_token() builds from the in-memory credential
TokenConfig(a) ==
    [kind |-> "json",
     jwt_token |-> a.jwt_token,
     token_expires_at |-> IF IsNone(a.token_expires_at) THEN None
                          ELSE Some(isoformat(Val(a.token_expires_at))),
     last_refreshed |-> IF IsNone(a.last_refreshed) THEN None
                        ELSE Some(isoformat(Val(a.last_refreshed)))]

\* the ways writing the file can end: written; an error before the file is
\* opened for writing (makedirs, open) leaves it as it was; an error while
\* json.dump writes leaves a truncated file.  All errors are swallowed.
WriteOutcomes == {"written", "untouched", "truncated"}

\* save_token(): the file after the call
save_token(a, s, w) ==
    CASE w = "written" -> TokenConfig(a)
      [] w = "untouched" -> s
      [] OTHER -> CorruptFile

\* load_token(): [ok, auth] from the file
load_token(a, s) ==
    IF s.kind = "absent" THEN [ok |-> FALSE, auth |-> a]
    ELSE IF s.kind = "corrupt" THEN [ok |-> FALSE, auth |-> a]
    ELSE [ok |-> TRUE,
          auth |-> [jwt_token |-> s.jwt_token,
                    token_expires_at |->
                        IF IsNone(s.token_expires_at) THEN a.token_expires_at
                        ELSE Some(fromisoformat(Val(s.token_expires_at))),
                    last_refreshed |->
                        IF IsNone(s.last_refreshed) THEN a.last_refreshed
                        ELSE Some(fromisoformat(Val(s.last_refreshed)))]]

\* the ways one login can end: the _TOKEN cookie is extracted; the cookie is
\* missing after the redirect; a page element times out; the driver raises
LoginOutcomes == {"ok", "no_cookie", "timeout", "error"}

\* seconds one login takes: the fixed sleeps of a completed login, nothing
\* when the driver fails at once, the element timeout otherwise
LoginElapsed(o) ==
    CASE o = "ok" -> {2 + 2 + 5}
      [] o = "no_cookie" -> {2 + 2 + 5}
      [] o = "timeout" -> {SELENIUM_TIMEOUT}
      [] OTHER -> {0}

\* the credential with the refresh buffer taken for the lifetime
LoginCredential_short(tok, t) ==
    [jwt_token |-> Some(tok),
     token_expires_at |-> Some(t + REFRESH_BUFFER),
     last_refreshed |-> Some(t)]

\* the credential a successful login at time t stores in memory
LoginCredential(tok, t) ==
    [jwt_token |-> Some(tok),
     token_expires_at |-> Some(t + TOKEN_LIFETIME),
     last_refreshed |-> Some(t)]

\* login_and_extract_token() that drops the credential when the login fails
login_and_extract_token_clearing(a, s, o, tok, t, w) ==
    IF o = "ok"
    THEN [ok |-> TRUE,
          auth |-> [jwt_token |-> Some(tok),
                    token_expires_at |-> Some(t + TOKEN_LIFETIME),
                    last_refreshed |-> Some(t)],
          store |-> TokenConfig([jwt_token |-> Some(tok),
                                 token_expires_at |-> Some(t + TOKEN_LIFETIME),
                                 last_refreshed |-> Some(t)])]
    ELSE [ok |-> FALSE, auth |-> NoAuth, store |-> s]

\* login_and_extract_token(): [ok, auth, store] after a login that ended
\* with outcome o at time t, the portal handing out tok, the write ending w
login_and_extract_token(a, s, o, tok, t, w) ==
    IF o = "ok"
    THEN [ok |-> TRUE,
          auth |-> LoginCredential(tok, t),
          store |-> save_token(LoginCredential(tok, t), s, w)]
    ELSE [ok |-> FALSE, auth |-> a, store |-> s]

\* one pass of refresh_token()'s loop: a login and, if it failed and
\* attempts remain, the backoff sleep.  Returns to the caller on success or
\* after the last attempt.
RefreshAttempt ==
    /\ pc = "refresh_token"
    /\ \E o \in LoginOutcomes, w \in WriteOutcomes :
         \E d \in LoginElapsed(o) :
           LET t == now + d
               r == login_and_extract_token(auth, store, o, next_token, t, w)
               last == attempt >= MAX_RETRIES - 1
               backoff == IF r.ok \/ last THEN 0 ELSE Pow2(attempt)
           IN  /\ (o = "ok") => next_token <= MaxTokens
               /\ (o # "ok") => w = "written"
               /\ t + backoff <= MaxNow
               /\ now' = t + backoff
               /\ auth' = r.auth
               /\ store' = r.store
               /\ next_token' = IF r.ok THEN next_token + 1 ELSE next_token
               /\ login_at' = IF r.ok THEN Some(t) ELSE login_at
               /\ cyc' = [cyc EXCEPT !.logins = @ + 1]
               /\ IF r.ok \/ last
                  THEN /\ pc' = Head(ret)
                       /\ ret' = Tail(ret)
                       /\ rv' = r.ok
                       /\ attempt' = 0
                  ELSE /\ pc' = "refresh_token"
                       /\ attempt' = attempt + 1
                       /\ UNCHANGED <<ret, rv>>
    /\ UNCHANGED <<got, sleep_i, running, ctrl_token,
                   consecutive_errors, recent_reverts, stats, hstate, schedule,
                   vendor_temp, expected_temp, current_temp, arg, res,
                   schedule_file>>

\* get_token(), up to its call of refresh_token()
GetToken ==
    /\ pc = "get_token"
    /\ LET l == IF IsNone(auth.jwt_token) THEN load_token(auth, store)
                ELSE [ok |-> TRUE, auth |-> auth]
       IN  /\ auth' = l.auth
           /\ IF ~l.ok
              THEN /\ got' = None
                   /\ pc' = Head(ret)
                   /\ ret' = Tail(ret)
                   /\ UNCHANGED attempt
              ELSE IF needs_refresh(l.auth, now)
              THEN /\ pc' = "refresh_token"
                   /\ attempt' = 0
                   /\ ret' = <<"get_token_ret">> \o ret
                   /\ UNCHANGED got
              ELSE /\ got' = l.auth.jwt_token
                   /\ pc' = Head(ret)
                   /\ ret' = Tail(ret)
                   /\ UNCHANGED attempt
    /\ UNCHANGED <<now, rv, sleep_i, running, store, next_token,
                   login_at, ctrl_token, consecutive_errors, recent_reverts,
                   stats, hstate, schedule, vendor_temp, expected_temp,
                   current_temp, cyc, arg, res,
                   schedule_file>>

\* get_token(), after its call of refresh_token() returned
GetTokenReturn ==
    /\ pc = "get_token_ret"
    /\ got' = IF rv THEN auth.jwt_token ELSE None
    /\ pc' = Head(ret)
    /\ ret' = Tail(ret)
    /\ UNCHANGED <<now, rv, attempt, sleep_i, running, auth, store,
                   next_token, login_at, ctrl_token, consecutive_errors,
                   recent_reverts, stats, hstate, schedule, vendor_temp,
                   expected_temp, current_temp, cyc, arg, res,
                   schedule_file>>

(***************************************************************************)
(* ScheduleEngine.  A schedule maps each day (0 = monday .. 6 = sunday) to *)
(* its entries, sorted by time; an entry's time is in minutes of the day.  *)
(***************************************************************************)
DayOf(t) == (t \div 86400) % 7
TimeOfDay(t) == t % 86400

\* the loop of get_expected_temperature() with < for <=: an entry applies
\* only after its time
RECURSIVE ApplicableEntry_after_start(_, _, _, _)
ApplicableEntry_after_start(es, i, cur, acc) ==
    IF i > Len(es) THEN acc
    ELSE IF es[i].time * 60 < cur
         THEN ApplicableEntry_after_start(es, i + 1, cur, Some(es[i]))
         ELSE acc

\* the loop of get_expected_temperature(): the last entry at or before cur,
\* stopping at the first later entry
RECURSIVE ApplicableEntry(_, _, _, _)
ApplicableEntry(es, i, cur, acc) ==
    IF i > Len(es) THEN acc
    ELSE IF es[i].time * 60 <= cur
         THEN ApplicableEntry(es, i + 1, cur, Some(es[i]))
         ELSE acc

\* _get_last_temperature_from_previous_day() reading previous_schedule[0]
LastTemperatureFromPreviousDay_first_entry(sch, day) ==
    LET previous_schedule == sch.days[(day + 6) % 7]
    IN  IF Len(previous_schedule) > 0
        THEN Some(previous_schedule[1].temperature)
        ELSE None

\* _get_last_temperature_from_previous_day()
LastTemperatureFromPreviousDay(sch, day) ==
    LET previous_schedule == sch.days[(day + 6) % 7]
    IN  IF Len(previous_schedule) > 0
        THEN Some(previous_schedule[Len(previous_schedule)].temperature)
        ELSE None

\* get_expected_temperature(dt) that takes the day's first entry when none
\* is at or before dt
get_expected_temperature_upcoming(sch, t) ==
    LET day_schedule == sch.days[DayOf(t)]
        applicable_entry == ApplicableEntry(day_schedule, 1, TimeOfDay(t), None)
    IN  IF Len(day_schedule) = 0 THEN sch.default_temperature
        ELSE IF ~IsNone(applicable_entry) THEN Val(applicable_entry).temperature
        ELSE day_schedule[1].temperature

\* get_expected_temperature(dt) without the look at the previous day
get_expected_temperature_no_carry(sch, t) ==
    LET day_schedule == sch.days[DayOf(t)]
        applicable_entry == ApplicableEntry(day_schedule, 1, TimeOfDay(t), None)
    IN  IF Len(day_schedule) = 0 THEN sch.default_temperature
        ELSE IF ~IsNone(applicable_entry) THEN Val(applicable_entry).temperature
        ELSE sch.default_temperature

\* get_expected_temperature(dt)
get_expected_temperature(sch, t) ==
    LET day_schedule == sch.days[DayOf(t)]
        applicable_entry == ApplicableEntry(day_schedule, 1, TimeOfDay(t), None)
        previous_day_temp == LastTemperatureFromPreviousDay(sch, DayOf(t))
    IN  IF Len(day_schedule) = 0 THEN sch.default_temperature
        ELSE IF ~IsNone(applicable_entry) THEN Val(applicable_entry).temperature
        ELSE IF ~IsNone(previous_day_temp) THEN Val(previous_day_temp)
        ELSE sch.default_temperature

\* ScheduleEngine.__init__(): no entries, default 68, nothing loaded yet
NewEngine ==
    [days |-> [d \in 0..6 |-> << >>],
     default_temperature |-> DEFAULT_TEMPERATURE,
     last_modified |-> None]

(***************************************************************************)
(* The schedule file.  A file is absent, is not JSON, or holds a document: *)
(* the entries declared for each day, in the order of the week, and the    *)
(* default temperature.  A declared entry is a JSON object, a record of    *)
(* the keys it carries; its "time" is a string, modelled by what strptime  *)
(* makes of it (minutes of the day, None when it is not HH:MM); its        *)
(* "temperature" is a number, a string or null.                            *)
(***************************************************************************)
JNumber(n) == [type |-> "number", value |-> n]
\* a string, with what int() makes of it: None when it is no numeral
JString(parsed) == [type |-> "string", value |-> parsed]
JNull == [type |-> "null"]

AbsentScheduleFile == [kind |-> "absent"]
InvalidScheduleFile(mtime) == [kind |-> "invalid", mtime |-> mtime]
JsonScheduleFile(doc, mtime) == [kind |-> "json", mtime |-> mtime, doc |-> doc]

\* load_schedule(), lines 72-74: what building one entry raises.  A missing
\* key raises KeyError; int() raises TypeError for null and ValueError for a
\* string that is no numeral; strptime raises ValueError for a time that is
\* not HH:MM.
EntryError(entry) ==
    IF "time" \notin DOMAIN entry THEN "KeyError"
    ELSE IF "temperature" \notin DOMAIN entry THEN "KeyError"
    ELSE IF entry.temperature.type = "null" THEN "TypeError"
    ELSE IF entry.temperature.type = "string" /\ IsNone(entry.temperature.value)
         THEN "ValueError"
    ELSE IF IsNone(entry.time) THEN "ValueError"
    ELSE "none"

\* ScheduleEntry(time_str, int(temperature)) of an entry that raises nothing
ScheduleEntry(entry) ==
    [time |-> Val(entry.time),
     temperature |-> IF entry.temperature.type = "number"
                     THEN entry.temperature.value
                     ELSE Val(entry.temperature.value)]

\* load_schedule() skipping the entries that carry "enabled": false
RECURSIVE ParseEntries_enabled_only(_)
ParseEntries_enabled_only(entries) ==
    IF entries = << >> THEN [raised |-> FALSE, parsed |-> << >>]
    ELSE LET entry == Head(entries)
             err == EntryError(entry)
         IN  IF err = "TypeError" THEN [raised |-> TRUE, parsed |-> << >>]
             ELSE LET rest == ParseEntries_enabled_only(Tail(entries))
                  IN  IF err # "none"
                         \/ ("enabled" \in DOMAIN entry /\ ~entry.enabled)
                      THEN rest
                      ELSE [rest EXCEPT !.parsed = << ScheduleEntry(entry) >> \o @]

\* load_schedule(), lines 69-77: the entries of a day.  An entry that raises
\* KeyError or ValueError is skipped; a TypeError is not caught there and
\* ends the loop (raised); parsed are the entries of the day when nothing
\* was raised.  No other key of an entry is read.
RECURSIVE ParseEntries(_)
ParseEntries(entries) ==
    IF entries = << >> THEN [raised |-> FALSE, parsed |-> << >>]
    ELSE LET entry == Head(entries)
             err == EntryError(entry)
         IN  IF err = "TypeError" THEN [raised |-> TRUE, parsed |-> << >>]
             ELSE LET rest == ParseEntries(Tail(entries))
                  IN  IF err # "none" THEN rest
                      ELSE [rest EXCEPT !.parsed = << ScheduleEntry(entry) >> \o @]

\* list.sort(key = time) placing an entry before the entries of its own time
RECURSIVE InsertByTime_before_equal(_, _)
InsertByTime_before_equal(sorted, e) ==
    IF sorted = << >> THEN << e >>
    ELSE IF Head(sorted).time < e.time
         THEN << Head(sorted) >> \o InsertByTime_before_equal(Tail(sorted), e)
         ELSE << e >> \o sorted

\* list.sort(key = time), one element: the sort is stable, an entry goes
\* after the entries of its own time that were declared before it
RECURSIVE InsertByTime(_, _)
InsertByTime(sorted, e) ==
    IF sorted = << >> THEN << e >>
    ELSE IF Head(sorted).time <= e.time
         THEN << Head(sorted) >> \o InsertByTime(Tail(sorted), e)
         ELSE << e >> \o sorted

\* parsed_entries.sort(key=lambda x: x.time)
RECURSIVE SortByTime(_)
SortByTime(entries) ==
    IF entries = << >> THEN << >>
    ELSE InsertByTime(SortByTime(SubSeq(entries, 1, Len(entries) - 1)),
                      entries[Len(entries)])

\* load_schedule() on engine eng with the file as it is on disk: what it
\* returns and the engine it leaves.  A missing file and invalid JSON return
\* False before anything is assigned.  Else default_temperature is assigned,
\* the schedule is emptied and the days are parsed, sorted and assigned one
\* by one in the order of the file; an exception in a day's entries is caught
\* by `except Exception`, which returns False with the days before it
\* assigned and the others missing.  last_modified is assigned at the end.
load_schedule(eng, file) ==
    IF file.kind # "json" THEN [ok |-> FALSE, engine |-> eng]
    ELSE LET parsed == [d \in 0..6 |-> ParseEntries(file.doc.days[d])]
             raising == { d \in 0..6 : parsed[d].raised }
             stop == IF raising = {} THEN 7
                     ELSE CHOOSE d \in raising : \A e \in raising : d <= e
         IN  [ok |-> raising = {},
              engine |-> [days |-> [d \in 0..6 |->
                                      IF d < stop THEN SortByTime(parsed[d].parsed)
                                      ELSE << >>],
                          default_temperature |-> file.doc.default_temperature,
                          last_modified |-> IF raising = {} THEN Some(file.mtime)
                                            ELSE eng.last_modified]]

\* check_for_updates(): stat() of a missing file raises, which is caught;
\* the file is loaded again when it is newer than the one loaded last
check_for_updates(eng, file) ==
    IF file.kind = "absent" THEN [ok |-> FALSE, engine |-> eng]
    ELSE IF ~IsNone(eng.last_modified) /\ file.mtime > Val(eng.last_modified)
         THEN load_schedule(eng, file)
         ELSE [ok |-> FALSE, engine |-> eng]

\* the minute of the day at which the service specification starts
StartMinute == TimeOfDay(MaxNow - LoopHorizon) \div 60

\* a well-formed entry of a schedule file: "HH:MM" given in minutes, and an
\* integer temperature
FileEntry(minutes, temp) == [time |-> Some(minutes), temperature |-> JNumber(temp)]

\* a schedule document with entries on monday and tuesday only
TwoDays(mon, tue, dflt) ==
    [days |-> [d \in 0..6 |-> IF d = 0 THEN mon ELSE IF d = 1 THEN tue ELSE << >>],
     default_temperature |-> dflt]

\* the schedule files the service is run with.  The service starts on a
\* tuesday afternoon: no entries at all; entries before and after the start
\* time; only a later entry, with and without entries on the day before;
\* an entry whose temperature is null.
InitScheduleDocs ==
    << TwoDays(<< >>, << >>, DEFAULT_TEMPERATURE),
       TwoDays(<< >>, << FileEntry(360, 70), FileEntry(StartMinute + 1, 65) >>,
               DEFAULT_TEMPERATURE),
       TwoDays(<< FileEntry(480, 72) >>, << FileEntry(1380, 60) >>,
               DEFAULT_TEMPERATURE),
       TwoDays(<< >>, << FileEntry(1380, 60) >>, DEFAULT_TEMPERATURE),
       TwoDays(<< FileEntry(480, 72) >>,
               << [time |-> Some(1380), temperature |-> JNull] >>,
               DEFAULT_TEMPERATURE) >>

\* the file of scenario i, written before the service starts
InitScheduleFile(i) == JsonScheduleFile(InitScheduleDocs[i], 1)

\* the engines that loaded these files
InitSchedules ==
    [i \in 1..Len(InitScheduleDocs) |->
        load_schedule(NewEngine, InitScheduleFile(i)).engine]

(***************************************************************************)
(* TemperatureController                                                   *)
(***************************************************************************)
\* temperatures_match() with < for <=
temperatures_match_strict(current, expected) ==
    Abs(current - expected) < TEMPERATURE_TOLERANCE

\* temperatures_match(current, expected), both in tenths of a degree
temperatures_match(current, expected) ==
    Abs(current - expected) <= TEMPERATURE_TOLERANCE

\* get_current_temperature_setting(): int(tenths / 10) of the vendor's value
SettingFromVendor(tenths) == tenths \div 10

\* get_current_temperature_setting() taking the first running hold event
\* whether or not it carries a temperature
RECURSIVE ActiveHoldSetting_first_hold_only(_, _)
ActiveHoldSetting_first_hold_only(events, i) ==
    IF i > Len(events) THEN None
    ELSE LET event == events[i]
         IN  IF event.running /\ event.type = "hold"
             THEN IF ~IsNone(event.heatHoldTemp)
                  THEN Some(SettingFromVendor(Val(event.heatHoldTemp)))
                  ELSE IF ~IsNone(event.coolHoldTemp)
                  THEN Some(SettingFromVendor(Val(event.coolHoldTemp)))
                  ELSE None
             ELSE ActiveHoldSetting_first_hold_only(events, i + 1)

\* get_current_temperature_setting(), the loop over the events from event i
\* on: the first event that is running and of type hold returns its heat
\* hold temperature, or else its cool hold temperature; an event without
\* either is passed over
RECURSIVE ActiveHoldSetting(_, _)
ActiveHoldSetting(events, i) ==
    IF i > Len(events) THEN None
    ELSE LET event == events[i]
         IN  IF event.running /\ event.type = "hold" /\ ~IsNone(event.heatHoldTemp)
             THEN Some(SettingFromVendor(Val(event.heatHoldTemp)))
             ELSE IF event.running /\ event.type = "hold"
                     /\ ~IsNone(event.coolHoldTemp)
             THEN Some(SettingFromVendor(Val(event.coolHoldTemp)))
             ELSE ActiveHoldSetting(events, i + 1)

\* get_current_temperature_setting() on what get_thermostats() returned:
\* None when the request failed, else the list of thermostats, of which the
\* first is used.  A thermostat has its events and the desiredHeat and
\* desiredCool of its runtime, all temperatures in tenths of a degree.
get_current_temperature_setting(thermostats) ==
    IF IsNone(thermostats) \/ Val(thermostats) = << >> THEN None
    ELSE LET thermostat == Val(thermostats)[1]
             hold == ActiveHoldSetting(thermostat.events, 1)
         IN  IF ~IsNone(hold) THEN hold
             ELSE IF ~IsNone(thermostat.desiredHeat)
             THEN Some(SettingFromVendor(Val(thermostat.desiredHeat)))
             ELSE IF ~IsNone(thermostat.desiredCool)
             THEN Some(SettingFromVendor(Val(thermostat.desiredCool)))
             ELSE None

\* select_sensors_toward_target(): the sensors with a temperature reading.
\* A sensor has its id, its name and the value of its temperature
\* capability in tenths of a degree, None when it has none or it is
\* 'unknown'.
Readable(raw_sensors) ==
    SelectSeq(raw_sensors, LAMBDA s : ~IsNone(s.temperature))

\* sum(s['temp'] for s in readable), in tenths
RECURSIVE SumOfTemps(_)
SumOfTemps(readable) ==
    IF readable = << >> THEN 0
    ELSE Val(Head(readable).temperature) + SumOfTemps(Tail(readable))

\* sorted(key = temp), one element: stable, a sensor goes after the sensors
\* of its own temperature that precede it in the list
RECURSIVE InsertCoolestFirst(_, _)
InsertCoolestFirst(sorted, s) ==
    IF sorted = << >> THEN << s >>
    ELSE IF Val(Head(sorted).temperature) <= Val(s.temperature)
         THEN << Head(sorted) >> \o InsertCoolestFirst(Tail(sorted), s)
         ELSE << s >> \o sorted

\* sorted(readable, key=lambda s: s['temp'])
RECURSIVE SortCoolestFirst(_)
SortCoolestFirst(readable) ==
    IF readable = << >> THEN << >>
    ELSE InsertCoolestFirst(SortCoolestFirst(SubSeq(readable, 1, Len(readable) - 1)),
                            readable[Len(readable)])

\* the ascending sort reversed, which also reverses the sensors of equal
\* temperature
RECURSIVE InsertWarmestFirst_reversed_ties(_, _)
InsertWarmestFirst_reversed_ties(sorted, s) ==
    IF sorted = << >> THEN << s >>
    ELSE IF Val(Head(sorted).temperature) > Val(s.temperature)
         THEN << Head(sorted) >> \o InsertWarmestFirst_reversed_ties(Tail(sorted), s)
         ELSE << s >> \o sorted

\* sorted(key = temp, reverse = True), one element: descending, and still
\* stable: a sensor goes after the sensors of its own temperature that
\* precede it in the list
RECURSIVE InsertWarmestFirst(_, _)
InsertWarmestFirst(sorted, s) ==
    IF sorted = << >> THEN << s >>
    ELSE IF Val(Head(sorted).temperature) >= Val(s.temperature)
         THEN << Head(sorted) >> \o InsertWarmestFirst(Tail(sorted), s)
         ELSE << s >> \o sorted

\* sorted(readable, key=lambda s: s['temp'], reverse=True)
RECURSIVE SortWarmestFirst(_)
SortWarmestFirst(readable) ==
    IF readable = << >> THEN << >>
    ELSE InsertWarmestFirst(SortWarmestFirst(SubSeq(readable, 1, Len(readable) - 1)),
                            readable[Len(readable)])

\* the size of the half without its minimum of one
HalfCount_unguarded(n) == n \div 2

\* max(1, len(readable) // 2)
HalfCount(n) == IF n \div 2 >= 1 THEN n \div 2 ELSE 1

\* select_sensors_toward_target(), lines 358-364: the sensor as returned,
\* with the id of the climate sensor map when the map has its name
SelectedSensor(s, climate_sensor_map) ==
    IF ~IsNone(climate_sensor_map) /\ s.name \in DOMAIN Val(climate_sensor_map)
    THEN [id |-> Val(climate_sensor_map)[s.name], name |-> s.name]
    ELSE [id |-> s.id, name |-> s.name]

\* select_sensors_toward_target() preferring the sensors strictly below or
\* strictly above the target
select_sensors_toward_target_strict(raw_sensors, target_temp, climate_sensor_map) ==
    LET readable == Readable(raw_sensors)
        n == Len(readable)
        total == SumOfTemps(readable)
        at_or_below == SelectSeq(readable, LAMBDA s : Val(s.temperature) < target_temp)
        at_or_above == SelectSeq(readable, LAMBDA s : Val(s.temperature) > target_temp)
        candidates ==
            IF total > target_temp * n
            THEN IF at_or_below # << >> THEN at_or_below
                 ELSE SubSeq(SortCoolestFirst(readable), 1, HalfCount(n))
            ELSE IF total < target_temp * n
            THEN IF at_or_above # << >> THEN at_or_above
                 ELSE SubSeq(SortWarmestFirst(readable), 1, HalfCount(n))
            ELSE readable
    IN  IF readable = << >>
        THEN [i \in 1..Len(raw_sensors) |->
                 [id |-> raw_sensors[i].id, name |-> raw_sensors[i].name]]
        ELSE [i \in 1..Len(candidates) |->
                 SelectedSensor(candidates[i], climate_sensor_map)]

\* select_sensors_toward_target(raw_sensors, target_temp, climate_sensor_map),
\* target_temp in tenths of a degree.  avg > target_temp is compared as
\* sum > target_temp * len.
select_sensors_toward_target(raw_sensors, target_temp, climate_sensor_map) ==
    LET readable == Readable(raw_sensors)
        n == Len(readable)
        total == SumOfTemps(readable)
        at_or_below == SelectSeq(readable, LAMBDA s : Val(s.temperature) <= target_temp)
        at_or_above == SelectSeq(readable, LAMBDA s : Val(s.temperature) >= target_temp)
        candidates ==
            IF total > target_temp * n
            THEN IF at_or_below # << >> THEN at_or_below
                 ELSE SubSeq(SortCoolestFirst(readable), 1, HalfCount(n))
            ELSE IF total < target_temp * n
            THEN IF at_or_above # << >> THEN at_or_above
                 ELSE SubSeq(SortWarmestFirst(readable), 1, HalfCount(n))
            ELSE readable
    IN  IF readable = << >>
        THEN [i \in 1..Len(raw_sensors) |->
                 [id |-> raw_sensors[i].id, name |-> raw_sensors[i].name]]
        ELSE [i \in 1..Len(candidates) |->
                 SelectedSensor(candidates[i], climate_sensor_map)]

\* update_night_schedule(), lines 478-483: the ordered list of the hours of
\* the window
NightHours(start_hour, end_hour) ==
    IF start_hour = end_hour THEN [i \in 1..24 |-> i - 1]
    ELSE IF start_hour > end_hour
         THEN [i \in 1..(24 - start_hour) |-> start_hour + i - 1]
              \o [i \in 1..end_hour |-> i - 1]
         ELSE [i \in 1..(end_hour - start_hour) |-> start_hour + i - 1]

\* update_night_schedule(), lines 488-495: the loop over enumerate(night_hours)
\* from index i on, for one day; a day maps its slots 0..47 to climate refs
RECURSIVE UpdatedDay(_, _, _, _, _)
UpdatedDay(updated_day, night_hours, i, climate_ref, alt_climate_ref) ==
    IF i >= Len(night_hours) THEN updated_day
    ELSE LET hour == night_hours[i + 1]
             ref == IF ~IsNone(alt_climate_ref) /\ i % 2 = 1
                    THEN Val(alt_climate_ref) ELSE climate_ref
             slot == hour * 2
         IN  UpdatedDay([updated_day EXCEPT ![slot] = ref, ![slot + 1] = ref],
                        night_hours, i + 1, climate_ref, alt_climate_ref)

\* next((c for c in climates if c.get('climateRef') == ref), None) finds one
HasClimate(climates, ref) ==
    \E k \in 1..Len(climates) : climates[k].climateRef = ref

\* update_night_schedule() from the answer of get_climate_sensor_info()
\* (None when the request failed) to the request body it builds: [ok, body],
\* body None when a climate is not in the program
night_schedule_body(info, temp, climate_ref, alt_climate_ref, start_hour, end_hour, update_heat_temp) ==
    IF IsNone(info) THEN [ok |-> FALSE, body |-> None]
    ELSE IF ~HasClimate(Val(info).climates, climate_ref)
    THEN [ok |-> FALSE, body |-> None]
    ELSE IF ~IsNone(alt_climate_ref)
            /\ ~HasClimate(Val(info).climates, Val(alt_climate_ref))
    THEN [ok |-> FALSE, body |-> None]
    ELSE LET climates == Val(info).climates
             night_hours == NightHours(start_hour, end_hour)
         IN  [ok |-> TRUE,
              body |-> Some(
                [selectionMatch |-> Val(info).thermostat_id,
                 climates |->
                    [k \in 1..Len(climates) |->
                        IF update_heat_temp /\ climates[k].climateRef = climate_ref
                        THEN [climates[k] EXCEPT !.heatTemp = temp * 10]
                        ELSE climates[k]],
                 schedule |->
                    [d \in 1..Len(Val(info).schedule) |->
                        UpdatedDay(Val(info).schedule[d], night_hours, 0,
                                   climate_ref, alt_climate_ref)]])]

\* set_temperature() sending degrees where the vendor expects tenths
EcobeeTemp_unscaled(target_temp) == target_temp

\* set_temperature(): int(target_temp * 10), the value sent in setHold
EcobeeTemp(target_temp) == target_temp * 10

(***************************************************************************)
(* HealthServer                                                            *)
(***************************************************************************)
InitStats == [checks_performed |-> 0, reverts_performed |-> 0,
              token_refreshes |-> 0, errors |-> 0,
              last_check |-> None, last_revert |-> None, last_error |-> None]

InitHState == [token_valid |-> FALSE, token_expires_at |-> None,
               current_temperature |-> None, expected_temperature |-> None,
               schedule_loaded |-> FALSE]

\* update_token_status() with the flag assigned under `if expires_at`
update_token_status_guarded(h, valid, expires_at) ==
    IF IsNone(expires_at) THEN h
    ELSE [h EXCEPT !.token_valid = valid, !.token_expires_at = expires_at]

update_token_status(h, valid, expires_at) ==
    [h EXCEPT !.token_valid = valid,
              !.token_expires_at = IF IsNone(expires_at) THEN @ ELSE expires_at]

update_temperature_status(h, current, expected) ==
    [h EXCEPT !.current_temperature = current,
              !.expected_temperature = expected]

update_schedule_status(h, loaded) == [h EXCEPT !.schedule_loaded = loaded]

increment_checks(st, t) ==
    [st EXCEPT !.checks_performed = @ + 1, !.last_check = Some(t)]

\* increment_reverts() that only stamps the time
increment_reverts_stamp_only(st, t) ==
    [st EXCEPT !.last_revert = Some(t)]

increment_reverts(st, t) ==
    [st EXCEPT !.reverts_performed = @ + 1, !.last_revert = Some(t)]

increment_token_refreshes(st) == [st EXCEPT !.token_refreshes = @ + 1]

increment_errors(st, t) ==
    [st EXCEPT !.errors = @ + 1, !.last_error = Some(t)]

(***************************************************************************)
(* EcobeeServiceJWT                                                        *)
(***************************************************************************)
\* what a cycle has done so far, with the counters as they were at its start;
\* threshold_logged and excessive_logged: the cycle wrote the "Reached error
\* threshold" or the "Excessive temperature changes" message to the log
NewCycle(st, cerr, hist) ==
    [logins |-> 0, lookups |-> 0, fetches |-> 0, holds |-> << >>,
     result |-> "started",
     checks0 |-> st.checks_performed, reverts0 |-> st.reverts_performed,
     errors0 |-> cerr, history0 |-> hist, refresh_due |-> FALSE,
     threshold_logged |-> FALSE, excessive_logged |-> FALSE]

\* a history that is a list: append never evicts
DequeAppend_unbounded(q, x) == q \o << x >>

\* deque(maxlen = 60).append
DequeAppend(q, x) ==
    IF Len(q) >= REVERTS_MAXLEN THEN Tail(q) \o << x >> ELSE q \o << x >>

\* _check_excessive_changes() warning from 10 corrections on
ExcessiveChanges_from_ten(q, t) ==
    Cardinality({i \in 1..Len(q) : q[i] > t - 3600}) >= 10

\* _check_excessive_changes() at time t: more than 10 timestamps of the
\* history are later than one hour before t
ExcessiveChanges(q, t) ==
    Cardinality({i \in 1..Len(q) : q[i] > t - 3600}) > 10

\* the states in which the main thread is inside run()'s while loop
LoopPcs == {"loop", "refresh_if_needed", "rtin_ret", "rtin_tok", "check",
            "fetch", "set_get", "set_post", "threshold", "sleep",
            "retry_sleep", "error_sleep"}

\* initialize(), up to the credential: credentials from the environment,
\* load_token() and else the initial login
Initialize ==
    /\ pc = "initialize"
    /\ \E have_credentials \in BOOLEAN :
         IF ~have_credentials
         THEN /\ pc' = "exit"
              /\ UNCHANGED <<auth, ret>>
         ELSE LET l == load_token(auth, store)
              IN  /\ auth' = l.auth
                  /\ IF l.ok
                     THEN /\ pc' = "get_token"
                          /\ ret' = <<"init_tok">>
                     ELSE /\ pc' = "init_login"
                          /\ UNCHANGED ret
    /\ UNCHANGED <<now, rv, got, attempt, sleep_i, running, store,
                   next_token, login_at, ctrl_token, consecutive_errors,
                   recent_reverts, stats, hstate, schedule, vendor_temp,
                   expected_temp, current_temp, cyc, arg, res,
                   schedule_file>>

\* initialize(): the initial login when no token file could be loaded
InitialLogin ==
    /\ pc = "init_login"
    /\ \E o \in LoginOutcomes, w \in WriteOutcomes :
         \E d \in LoginElapsed(o) :
           LET t == now + d
               r == login_and_extract_token(auth, store, o, next_token, t, w)
           IN  /\ (o = "ok") => next_token <= MaxTokens
               /\ (o # "ok") => w = "written"
               /\ t <= MaxNow
               /\ now' = t
               /\ auth' = r.auth
               /\ store' = r.store
               /\ next_token' = IF r.ok THEN next_token + 1 ELSE next_token
               /\ login_at' = IF r.ok THEN Some(t) ELSE login_at
               /\ cyc' = [cyc EXCEPT !.logins = @ + 1]
               /\ IF r.ok
                  THEN /\ pc' = "get_token"
                       /\ ret' = <<"init_tok">>
                  ELSE /\ pc' = "exit"
                       /\ UNCHANGED ret
    /\ UNCHANGED <<rv, got, attempt, sleep_i, running, ctrl_token,
                   consecutive_errors, recent_reverts, stats, hstate, schedule,
                   vendor_temp, expected_temp, current_temp, arg, res,
                   schedule_file>>

\* initialize() going on when load_schedule() returned False
InitializeRest_ignoring_schedule ==
    /\ pc = "init_tok"
    /\ IF IsNone(got)
       THEN /\ pc' = "exit"
            /\ UNCHANGED <<schedule, ctrl_token, hstate>>
       ELSE LET l == load_schedule(schedule, schedule_file)
            IN  /\ schedule' = l.engine
                /\ IF FALSE
                   THEN /\ pc' = "exit"
                        /\ UNCHANGED <<ctrl_token, hstate>>
                   ELSE /\ ctrl_token' = got
                        /\ hstate' = update_token_status(
                                         update_schedule_status(hstate, TRUE),
                                         TRUE, auth.token_expires_at)
                        /\ pc' = "run"
    /\ UNCHANGED <<now, ret, rv, got, attempt, sleep_i, running, auth, store,
                   next_token, login_at, consecutive_errors, recent_reverts,
                   stats, vendor_temp, expected_temp, current_temp, cyc,
                   arg, res,
                   schedule_file>>

\* initialize(), from the token get_token() returned: load the schedule,
\* create the controller and the health server
InitializeRest ==
    /\ pc = "init_tok"
    /\ IF IsNone(got)
       THEN /\ pc' = "exit"
            /\ UNCHANGED <<schedule, ctrl_token, hstate>>
       ELSE LET l == load_schedule(schedule, schedule_file)
            IN  /\ schedule' = l.engine
                /\ IF ~l.ok
                   THEN /\ pc' = "exit"
                        /\ UNCHANGED <<ctrl_token, hstate>>
                   ELSE /\ ctrl_token' = got
                        /\ hstate' = update_token_status(
                                         update_schedule_status(hstate, TRUE),
                                         TRUE, auth.token_expires_at)
                        /\ pc' = "run"
    /\ UNCHANGED <<now, ret, rv, got, attempt, sleep_i, running, auth, store,
                   next_token, login_at, consecutive_errors, recent_reverts,
                   stats, vendor_temp, expected_temp, current_temp, cyc,
                   arg, res,
                   schedule_file>>

\* run(), before its loop
RunStart ==
    /\ pc = "run"
    /\ running' = TRUE
    /\ cyc' = NewCycle(stats, consecutive_errors, Len(recent_reverts))
    /\ pc' = "loop"
    /\ UNCHANGED <<now, ret, rv, got, attempt, sleep_i, auth, store,
                   next_token, login_at, ctrl_token, consecutive_errors,
                   recent_reverts, stats, hstate, schedule, vendor_temp,
                   expected_temp, current_temp, arg, res,
                   schedule_file>>

\* _signal_handler(): SIGTERM or SIGINT arrives between two steps.  Before
\* run() has set running, and once it is cleared, the handler changes nothing.
Signal ==
    /\ pc \in LoopPcs \cup {"refresh_token", "get_token", "get_token_ret"}
    /\ running
    /\ running' = FALSE
    /\ UNCHANGED <<now, pc, ret, rv, got, attempt, sleep_i, auth, store,
                   next_token, login_at, ctrl_token, consecutive_errors,
                   recent_reverts, stats, hstate, schedule, vendor_temp,
                   expected_temp, current_temp, cyc, arg, res,
                   schedule_file>>

\* run() with `while True` for `while self.running`
LoopTest_ignores_flag ==
    /\ pc = "loop"
    /\ pc' = "refresh_if_needed"
    /\ cyc' = NewCycle(stats, consecutive_errors, Len(recent_reverts))
    /\ UNCHANGED <<now, ret, rv, got, attempt, sleep_i, running,
                   auth, store, next_token, login_at, ctrl_token,
                   consecutive_errors, recent_reverts, stats, hstate, schedule,
                   vendor_temp, expected_temp, current_temp, arg, res,
                   schedule_file>>

\* run(): `while self.running`
LoopTest ==
    /\ pc = "loop"
    /\ IF running
       THEN /\ pc' = "refresh_if_needed"
            /\ cyc' = NewCycle(stats, consecutive_errors, Len(recent_reverts))
       ELSE /\ pc' = "shutdown"
            /\ UNCHANGED cyc
    /\ UNCHANGED <<now, ret, rv, got, attempt, sleep_i, running,
                   auth, store, next_token, login_at, ctrl_token,
                   consecutive_errors, recent_reverts, stats, hstate, schedule,
                   vendor_temp, expected_temp, current_temp, arg, res,
                   schedule_file>>

\* refresh_token_if_needed(), up to its call of refresh_token(); an
\* exception that escapes it is caught by run()'s `except Exception`
RefreshIfNeeded ==
    /\ pc = "refresh_if_needed"
    /\ \E raised \in BOOLEAN :
         IF raised
         THEN /\ pc' = "error_sleep"
              /\ cyc' = [cyc EXCEPT !.result = "unexpected_error"]
              /\ UNCHANGED <<attempt, ret>>
         ELSE IF needs_refresh(auth, now)
         THEN /\ pc' = "refresh_token"
              /\ attempt' = 0
              /\ ret' = <<"rtin_ret">>
              /\ cyc' = [cyc EXCEPT !.refresh_due = TRUE]
         ELSE /\ pc' = "check"
              /\ UNCHANGED <<attempt, ret, cyc>>
    /\ UNCHANGED <<now, rv, got, sleep_i, running, auth, store,
                   next_token, login_at, ctrl_token, consecutive_errors,
                   recent_reverts, stats, hstate, schedule, vendor_temp,
                   expected_temp, current_temp, arg, res,
                   schedule_file>>

\* refresh_token_if_needed(), after refresh_token() returned; run() skips
\* the cycle when it failed
RefreshReturned ==
    /\ pc = "rtin_ret"
    /\ IF rv
       THEN /\ stats' = increment_token_refreshes(stats)
            /\ hstate' = update_token_status(hstate, TRUE, auth.token_expires_at)
            /\ pc' = "get_token"
            /\ ret' = <<"rtin_tok">>
            /\ UNCHANGED cyc
       ELSE /\ hstate' = update_token_status(hstate, FALSE, None)
            /\ pc' = "retry_sleep"
            /\ cyc' = [cyc EXCEPT !.result = "refresh_failed"]
            /\ UNCHANGED <<stats, ret>>
    /\ UNCHANGED <<now, rv, got, attempt, sleep_i, running, auth,
                   store, next_token, login_at, ctrl_token, consecutive_errors,
                   recent_reverts, schedule, vendor_temp, expected_temp,
                   current_temp, arg, res,
                   schedule_file>>

\* refresh_token_if_needed() without the call of update_token
ControllerUpdate_not_passed_on ==
    /\ pc = "rtin_tok"
    /\ pc' = "check"
    /\ UNCHANGED <<now, ret, rv, got, attempt, sleep_i, running,
                   auth, store, next_token, login_at, ctrl_token,
                   consecutive_errors,
                   recent_reverts, stats, hstate, schedule, vendor_temp,
                   expected_temp, current_temp, cyc, arg, res,
                   schedule_file>>

\* refresh_token_if_needed(), after get_token() returned: update_token
ControllerUpdate ==
    /\ pc = "rtin_tok"
    /\ ctrl_token' = IF IsNone(got) THEN ctrl_token ELSE got
    /\ pc' = "check"
    /\ UNCHANGED <<now, ret, rv, got, attempt, sleep_i, running,
                   auth, store, next_token, login_at, consecutive_errors,
                   recent_reverts, stats, hstate, schedule, vendor_temp,
                   expected_temp, current_temp, cyc, arg, res,
                   schedule_file>>

\* run() with `break` for `continue` after the failed refresh
RetrySleep_breaks ==
    /\ pc = "retry_sleep"
    /\ now + RETRY_SLEEP <= MaxNow
    /\ now' = now + RETRY_SLEEP
    /\ pc' = "shutdown"
    /\ UNCHANGED <<ret, rv, got, attempt, sleep_i, running, auth,
                   store, next_token, login_at, ctrl_token, consecutive_errors,
                   recent_reverts, stats, hstate, schedule, vendor_temp,
                   expected_temp, current_temp, cyc, arg, res,
                   schedule_file>>

\* run(): time.sleep(60) after a failed refresh, then `continue`
RetrySleep ==
    /\ pc = "retry_sleep"
    /\ now + RETRY_SLEEP <= MaxNow
    /\ now' = now + RETRY_SLEEP
    /\ pc' = "loop"
    /\ UNCHANGED <<ret, rv, got, attempt, sleep_i, running, auth,
                   store, next_token, login_at, ctrl_token, consecutive_errors,
                   recent_reverts, stats, hstate, schedule, vendor_temp,
                   expected_temp, current_temp, cyc, arg, res,
                   schedule_file>>

\* run(): time.sleep(60) in `except Exception`, then the loop test
ErrorSleep ==
    /\ pc = "error_sleep"
    /\ now + RETRY_SLEEP <= MaxNow
    /\ now' = now + RETRY_SLEEP
    /\ pc' = "loop"
    /\ UNCHANGED <<ret, rv, got, attempt, sleep_i, running, auth,
                   store, next_token, login_at, ctrl_token, consecutive_errors,
                   recent_reverts, stats, hstate, schedule, vendor_temp,
                   expected_temp, current_temp, cyc, arg, res,
                   schedule_file>>

\* seconds a vendor call takes: the longest its timeout allows
ApiElapsed == {API_TIMEOUT}

\* somebody changes the setpoint at the thermostat (seen by the next fetch)
ManualOverride ==
    /\ pc = "check"
    /\ \E v \in VendorTemps :
         /\ v # vendor_temp
         /\ vendor_temp' = v
    /\ UNCHANGED <<now, pc, ret, rv, got, attempt, sleep_i, running,
                   auth, store, next_token, login_at, ctrl_token,
                   consecutive_errors, recent_reverts, stats, hstate, schedule,
                   expected_temp, current_temp, cyc, arg, res,
                   schedule_file>>

\* check_and_update_temperature(): check_for_updates() of the schedule and
\* the schedule lookup
CheckExpected ==
    /\ pc = "check"
    /\ schedule' = check_for_updates(schedule, schedule_file).engine
    /\ expected_temp' = Some(get_expected_temperature(schedule', now))
    /\ cyc' = [cyc EXCEPT !.lookups = @ + 1]
    /\ pc' = "fetch"
    /\ UNCHANGED <<now, ret, rv, got, attempt, sleep_i, running,
                   auth, store, next_token, login_at, ctrl_token,
                   consecutive_errors, recent_reverts, stats, hstate,
                   vendor_temp, current_temp, arg, res,
                   schedule_file>>

\* check_and_update_temperature() asking for the setpoint again at once when
\* the request failed
FetchActual_retrying ==
    /\ pc = "fetch"
    /\ \E o \in {"ok", "fail", "malformed"}, d \in ApiElapsed :
         LET t == now + d
             cur == SettingFromVendor(vendor_temp)
         IN  /\ t <= MaxNow
             /\ now' = t
             /\ IF o # "ok"
                THEN /\ current_temp' = None
                     /\ stats' = increment_errors(stats, t)
                     /\ consecutive_errors' = consecutive_errors + 1
                     /\ cyc' = [cyc EXCEPT !.fetches = @ + 1,
                                           !.result = IF o = "fail"
                                                      THEN "fetch_failed"
                                                      ELSE "exception"]
                     /\ pc' = "fetch"
                     /\ UNCHANGED hstate
                ELSE /\ current_temp' = Some(cur)
                     /\ hstate' = update_temperature_status(
                                      hstate, Some(cur), expected_temp)
                     /\ stats' = increment_checks(stats, t)
                     /\ IF temperatures_match(cur * 10, Val(expected_temp) * 10)
                        THEN /\ consecutive_errors' = 0
                             /\ cyc' = [cyc EXCEPT !.fetches = @ + 1,
                                                   !.result = "matched"]
                             /\ pc' = "threshold"
                        ELSE /\ cyc' = [cyc EXCEPT !.fetches = @ + 1]
                             /\ pc' = "set_get"
                             /\ UNCHANGED consecutive_errors
    /\ UNCHANGED <<ret, rv, got, attempt, sleep_i, running, auth,
                   store, next_token, login_at, ctrl_token, recent_reverts,
                   schedule, vendor_temp, expected_temp, arg, res,
                   schedule_file>>

\* check_and_update_temperature(): get_current_temperature_setting(), the
\* status update and the comparison.  "fail": the request failed and the
\* controller returned None; "malformed": the answer lacks the fields the
\* controller reads, which raises, and `except Exception` counts the error.
FetchActual ==
    /\ pc = "fetch"
    /\ \E o \in {"ok", "fail", "malformed"}, d \in ApiElapsed :
         LET t == now + d
             cur == SettingFromVendor(vendor_temp)
         IN  /\ t <= MaxNow
             /\ now' = t
             /\ IF o # "ok"
                THEN /\ current_temp' = None
                     /\ stats' = increment_errors(stats, t)
                     /\ consecutive_errors' = consecutive_errors + 1
                     /\ cyc' = [cyc EXCEPT !.fetches = @ + 1,
                                           !.result = IF o = "fail"
                                                      THEN "fetch_failed"
                                                      ELSE "exception"]
                     /\ pc' = "threshold"
                     /\ UNCHANGED hstate
                ELSE /\ current_temp' = Some(cur)
                     /\ hstate' = update_temperature_status(
                                      hstate, Some(cur), expected_temp)
                     /\ stats' = increment_checks(stats, t)
                     /\ IF temperatures_match(cur * 10, Val(expected_temp) * 10)
                        THEN /\ consecutive_errors' = 0
                             /\ cyc' = [cyc EXCEPT !.fetches = @ + 1,
                                                   !.result = "matched"]
                             /\ pc' = "threshold"
                        ELSE /\ cyc' = [cyc EXCEPT !.fetches = @ + 1]
                             /\ pc' = "set_get"
                             /\ UNCHANGED consecutive_errors
    /\ UNCHANGED <<ret, rv, got, attempt, sleep_i, running, auth,
                   store, next_token, login_at, ctrl_token, recent_reverts,
                   schedule, vendor_temp, expected_temp, arg, res,
                   schedule_file>>

\* set_temperature(): its get_thermostats() call
SetGet ==
    /\ pc = "set_get"
    /\ \E o \in {"ok", "fail"}, d \in ApiElapsed :
         LET t == now + d
         IN  /\ t <= MaxNow
             /\ now' = t
             /\ IF o = "fail"
                THEN /\ stats' = increment_errors(stats, t)
                     /\ consecutive_errors' = consecutive_errors + 1
                     /\ cyc' = [cyc EXCEPT !.result = "set_failed"]
                     /\ pc' = "threshold"
                ELSE /\ pc' = "set_post"
                     /\ UNCHANGED <<stats, consecutive_errors, cyc>>
    /\ UNCHANGED <<ret, rv, got, attempt, sleep_i, running, auth,
                   store, next_token, login_at, ctrl_token, recent_reverts,
                   hstate, schedule, vendor_temp, expected_temp, current_temp,
                   arg, res,
                   schedule_file>>

\* set_temperature(): the setHold request, and what
\* check_and_update_temperature() does with its result.  "lost": the vendor
\* applied the hold but the answer never arrived.
SetPost ==
    /\ pc = "set_post"
    /\ \E o \in {"ok", "rejected", "lost"}, d \in ApiElapsed :
         LET t == now + d
             ecobee_temp == EcobeeTemp(Val(expected_temp))
         IN  /\ t <= MaxNow
             /\ now' = t
             /\ vendor_temp' = IF o = "rejected" THEN vendor_temp ELSE ecobee_temp
             /\ IF o = "ok"
                THEN /\ stats' = increment_reverts(stats, t)
                     /\ recent_reverts' = DequeAppend(recent_reverts, t)
                     /\ consecutive_errors' = 0
                     /\ cyc' = [cyc EXCEPT
                                   !.holds = Append(@, ecobee_temp),
                                   !.result = "corrected",
                                   !.excessive_logged = ExcessiveChanges(
                                       DequeAppend(recent_reverts, t), t)]
                ELSE /\ stats' = increment_errors(stats, t)
                     /\ consecutive_errors' = consecutive_errors + 1
                     /\ cyc' = [cyc EXCEPT !.holds = Append(@, ecobee_temp),
                                           !.result = "set_failed"]
                     /\ UNCHANGED recent_reverts
             /\ pc' = "threshold"
    /\ UNCHANGED <<ret, rv, got, attempt, sleep_i, running, auth,
                   store, next_token, login_at, ctrl_token, hstate, schedule,
                   expected_temp, current_temp, arg, res,
                   schedule_file>>

\* run(): the error threshold logging the message without resetting the
\* counter
Threshold_keeps_counter ==
    /\ pc = "threshold"
    /\ IF consecutive_errors >= ERROR_THRESHOLD
       THEN cyc' = [cyc EXCEPT !.threshold_logged = TRUE]
       ELSE UNCHANGED cyc
    /\ UNCHANGED consecutive_errors
    /\ sleep_i' = 0
    /\ pc' = IF running THEN "sleep" ELSE "loop"
    /\ UNCHANGED <<now, ret, rv, got, attempt, running, auth, store,
                   next_token, login_at, ctrl_token, recent_reverts, stats,
                   hstate, schedule, vendor_temp, expected_temp, current_temp,
                   arg, res,
                   schedule_file>>

\* run(): the error threshold, and entering the sleep loop
Threshold ==
    /\ pc = "threshold"
    /\ IF consecutive_errors >= ERROR_THRESHOLD
       THEN /\ cyc' = [cyc EXCEPT !.threshold_logged = TRUE]
            /\ consecutive_errors' = 0
       ELSE UNCHANGED <<cyc, consecutive_errors>>
    /\ sleep_i' = 0
    /\ pc' = IF running THEN "sleep" ELSE "loop"
    /\ UNCHANGED <<now, ret, rv, got, attempt, running, auth, store,
                   next_token, login_at, ctrl_token, recent_reverts, stats,
                   hstate, schedule, vendor_temp, expected_temp, current_temp,
                   arg, res,
                   schedule_file>>

\* run(): one iteration of the sleep loop, time.sleep(1)
SleepTick ==
    /\ pc = "sleep"
    /\ IF sleep_i < CheckIntervalMinutes * 60 /\ running
       THEN /\ now + 1 <= MaxNow
            /\ now' = now + 1
            /\ sleep_i' = sleep_i + 1
            /\ UNCHANGED pc
       ELSE /\ pc' = "loop"
            /\ UNCHANGED <<now, sleep_i>>
    /\ UNCHANGED <<ret, rv, got, attempt, running, auth, store,
                   next_token, login_at, ctrl_token, consecutive_errors,
                   recent_reverts, stats, hstate, schedule, vendor_temp,
                   expected_temp, current_temp, cyc, arg, res,
                   schedule_file>>

\* run(): shutdown() once the loop is left, and the return to main()
Shutdown ==
    /\ pc = "shutdown"
    /\ pc' = "stopped"
    /\ UNCHANGED <<now, ret, rv, got, attempt, sleep_i, running, auth, store,
                   next_token, login_at, ctrl_token, consecutive_errors,
                   recent_reverts, stats, hstate, schedule, vendor_temp,
                   expected_temp, current_temp, cyc, arg, res,
                   schedule_file>>

(***************************************************************************)
(* The service: the process from main() on.                                *)
(***************************************************************************)
\* the credential a previous run left in the file, ttl seconds from t0
StoredCredential(t0, ttl) ==
    TokenConfig([jwt_token |-> Some(0),
                 token_expires_at |-> Some(t0 + ttl),
                 last_refreshed |-> Some(t0 + ttl - TOKEN_LIFETIME)])

\* what the service is started with: the credential file (absent, corrupt,
\* or a credential with ttl seconds left), the schedule file (index into
\* InitScheduleDocs, 0 when there is no file) and the setpoint at the
\* thermostat
InitScenarios ==
    { [file |-> "absent", ttl |-> 0, sched |-> 1, temp |-> 680],
      [file |-> "corrupt", ttl |-> 0, sched |-> 2, temp |-> 704],
      [file |-> "json", ttl |-> 0 - 100, sched |-> 3, temp |-> 680],
      [file |-> "json", ttl |-> 299, sched |-> 4, temp |-> 704],
      [file |-> "json", ttl |-> 300, sched |-> 1, temp |-> 704],
      [file |-> "json", ttl |-> 300, sched |-> 2, temp |-> 680],
      [file |-> "json", ttl |-> 365, sched |-> 2, temp |-> 704],
      [file |-> "json", ttl |-> 365, sched |-> 4, temp |-> 680],
      [file |-> "json", ttl |-> 365, sched |-> 0, temp |-> 680],
      [file |-> "json", ttl |-> 365, sched |-> 5, temp |-> 680] }

ScenarioStore(sc, t0) ==
    CASE sc.file = "absent" -> AbsentFile
      [] sc.file = "corrupt" -> CorruptFile
      [] OTHER -> StoredCredential(t0, sc.ttl)

\* the service started in one of the given scenarios, horizon seconds
\* before the clock of the model ends
InitWith(scenarios, horizon) ==
    /\ now = MaxNow - horizon
    /\ pc = "initialize"
    /\ ret = << >>
    /\ rv = FALSE
    /\ got = None
    /\ attempt = 0
    /\ sleep_i = 0
    /\ running = FALSE
    /\ auth = NoAuth
    /\ \E sc \in scenarios :
         /\ store = ScenarioStore(sc, now)
         /\ schedule_file = IF sc.sched = 0 THEN AbsentScheduleFile
                            ELSE InitScheduleFile(sc.sched)
         /\ vendor_temp = sc.temp
    /\ schedule = NewEngine
    /\ next_token = 1
    /\ login_at = None
    /\ ctrl_token = None
    /\ consecutive_errors = 0
    /\ recent_reverts = << >>
    /\ stats = InitStats
    /\ hstate = InitHState
    /\ expected_temp = None
    /\ current_temp = None
    /\ cyc = NewCycle(InitStats, 0, 0)
    /\ arg = None
    /\ res = None

Init == InitWith(InitScenarios, LoopHorizon)

Next ==
    \/ Initialize
    \/ InitialLogin
    \/ InitializeRest
    \/ RunStart
    \/ Signal
    \/ LoopTest
    \/ RefreshIfNeeded
    \/ RefreshAttempt
    \/ RefreshReturned
    \/ GetToken
    \/ GetTokenReturn
    \/ ControllerUpdate
    \/ RetrySleep
    \/ ErrorSleep
    \/ ManualOverride
    \/ CheckExpected
    \/ FetchActual
    \/ SetGet
    \/ SetPost
    \/ Threshold
    \/ SleepTick
    \/ Shutdown

Spec == Init /\ [][Next]_vars

\* the steps of the main thread: every step but the arrival of a signal and
\* a change of the setpoint at the thermostat
ProgramStep ==
    \/ Initialize
    \/ InitialLogin
    \/ InitializeRest
    \/ RunStart
    \/ LoopTest
    \/ RefreshIfNeeded
    \/ RefreshAttempt
    \/ RefreshReturned
    \/ GetToken
    \/ GetTokenReturn
    \/ ControllerUpdate
    \/ RetrySleep
    \/ ErrorSleep
    \/ CheckExpected
    \/ FetchActual
    \/ SetGet
    \/ SetPost
    \/ Threshold
    \/ SleepTick
    \/ Shutdown

\* the scenarios the service is started with where its progress is checked:
\* no credential file, a credential that is due for refresh at the start,
\* and one that comes due once the loop runs
LiveScenarios ==
    { sc \in InitScenarios :
        \/ sc.file = "absent"
        \/ sc.file = "json" /\ sc.ttl = 299
        \/ sc.file = "json" /\ sc.ttl = 300 /\ sc.sched = 1 }

InitLive == InitWith(LiveScenarios, LiveHorizon)

\* the service with a main thread that keeps running: it takes its next
\* step whenever it has one
SpecLive == InitLive /\ [][Next]_vars /\ WF_vars(ProgramStep)

\* the main thread has a next step in the program, but the clock of the
\* model cannot advance by the time that step takes
HorizonReached == pc \notin {"exit", "stopped"} /\ ~ENABLED ProgramStep

(***************************************************************************)
(* The service with signals from the moment the handlers are installed:    *)
(* __init__ installs them, so a signal can arrive during initialize() and  *)
(* before run() has set the flag.                                          *)
(***************************************************************************)
\* the states of the main thread between __init__ and the first statement
\* of run()
BeforeRunPcs == {"initialize", "init_login", "get_token", "get_token_ret",
                 "init_tok", "run"}

\* _signal_handler() before run(): the flag is cleared while it is still
\* False; arg keeps the signal the handler was called with
SignalBeforeRun ==
    /\ pc \in BeforeRunPcs
    /\ ~running
    /\ IsNone(arg)
    /\ \E signum \in {"SIGTERM", "SIGINT"} : arg' = Some(signum)
    /\ running' = FALSE
    /\ UNCHANGED <<now, pc, ret, rv, got, attempt, sleep_i, auth, store,
                   next_token, login_at, ctrl_token, consecutive_errors,
                   recent_reverts, stats, hstate, schedule, vendor_temp,
                   expected_temp, current_temp, cyc, res,
                   schedule_file>>

InitSignal == InitWith(LiveScenarios, LiveHorizon)

NextSignal ==
    \/ Next
    \/ SignalBeforeRun

SpecSignal == InitSignal /\ [][NextSignal]_vars /\ WF_vars(ProgramStep)

\* C36: a signal delivered after the handlers are installed stops the
\* service also when it arrives during initialize(), before run() has
\* started: after such a signal the loop never runs a cycle.
C36_NoCycleAfterEarlySignal ==
    ~IsNone(arg) => pc \notin (LoopPcs \ {"loop"})

(***************************************************************************)
(* The credential manager on its own: a caller that refreshes, asks for    *)
(* the token and restarts the process at the times around the expiry of    *)
(* the credential it holds.                                                *)
(***************************************************************************)
\* the instants around the credential's refresh time and expiry
BoundaryTimes(a) ==
    IF IsNone(a.token_expires_at) THEN {}
    ELSE LET e == Val(a.token_expires_at)
         IN  {e - REFRESH_BUFFER - 1, e - REFRESH_BUFFER, e - REFRESH_BUFFER + 1,
              e - 1, e, e + 1}

\* time passes, up to one of the instants around the refresh time and expiry
AuthAdvance ==
    /\ pc = "idle"
    /\ \E t \in BoundaryTimes(auth) :
         /\ t > now
         /\ t <= MaxNow
         /\ now' = t
    /\ UNCHANGED <<pc, ret, rv, got, attempt, sleep_i, running, auth, store,
                   next_token, login_at, ctrl_token, consecutive_errors,
                   recent_reverts, stats, hstate, schedule, vendor_temp,
                   expected_temp, current_temp, cyc, arg, res,
                   schedule_file>>

\* the caller calls refresh_token()
AuthRefresh ==
    /\ pc = "idle"
    /\ cyc.logins + MAX_RETRIES <= MaxLogins
    /\ pc' = "refresh_token"
    /\ attempt' = 0
    /\ ret' = <<"idle">>
    /\ UNCHANGED <<now, rv, got, sleep_i, running, auth, store, next_token,
                   login_at, ctrl_token, consecutive_errors, recent_reverts,
                   stats, hstate, schedule, vendor_temp, expected_temp,
                   current_temp, cyc, arg, res,
                   schedule_file>>

\* the caller calls get_token()
AuthGetToken ==
    /\ pc = "idle"
    /\ cyc.logins + MAX_RETRIES <= MaxLogins
    /\ pc' = "get_token"
    /\ ret' = <<"idle">>
    /\ UNCHANGED <<now, rv, got, attempt, sleep_i, running, auth, store,
                   next_token, login_at, ctrl_token, consecutive_errors,
                   recent_reverts, stats, hstate, schedule, vendor_temp,
                   expected_temp, current_temp, cyc, arg, res,
                   schedule_file>>

\* the process is restarted: a new EcobeeAuthJWT, then load_token()
AuthRestart ==
    /\ pc = "idle"
    /\ ~IsNone(login_at)
    /\ auth' = load_token(NoAuth, store).auth
    /\ login_at' = None
    /\ rv' = FALSE
    /\ got' = None
    /\ UNCHANGED <<now, pc, ret, attempt, sleep_i, running, store, next_token,
                   ctrl_token, consecutive_errors, recent_reverts, stats,
                   hstate, schedule, vendor_temp, expected_temp, current_temp,
                   cyc, arg, res,
                   schedule_file>>

InitAuth ==
    /\ now = MaxNow - AuthHorizon
    /\ pc = "idle"
    /\ ret = << >>
    /\ rv = FALSE
    /\ got = None
    /\ attempt = 0
    /\ sleep_i = 0
    /\ running = FALSE
    /\ auth = NoAuth
    /\ store = AbsentFile
    /\ next_token = 1
    /\ login_at = None
    /\ ctrl_token = None
    /\ consecutive_errors = 0
    /\ recent_reverts = << >>
    /\ stats = InitStats
    /\ hstate = InitHState
    /\ schedule = InitSchedules[1]
    /\ schedule_file = InitScheduleFile(1)
    /\ vendor_temp = 680
    /\ expected_temp = None
    /\ current_temp = None
    /\ cyc = NewCycle(InitStats, 0, 0)
    /\ arg = None
    /\ res = None

NextAuth ==
    \/ AuthAdvance
    \/ AuthRefresh
    \/ AuthGetToken
    \/ AuthRestart
    \/ RefreshAttempt
    \/ GetToken
    \/ GetTokenReturn

SpecAuth == InitAuth /\ [][NextAuth]_vars

(***************************************************************************)
(* The correction history on its own: the setpoint is changed at the       *)
(* thermostat before every check, so that every cycle sends a hold, and    *)
(* the cycles follow each other at a fixed pace.                           *)
(***************************************************************************)
\* seconds from the answer to one hold command to the sending of the next
HistoryGaps == {1, 310, 317, 320, 350, 390}

\* a cycle up to its hold command: the schedule expects 68 and the fetch
\* found the 70 set at the thermostat
HistoryCycle ==
    /\ pc = "history"
    /\ stats.reverts_performed + stats.errors < MaxHolds
    /\ stats.errors < MaxFailedHolds
    /\ cyc' = NewCycle(stats, consecutive_errors, Len(recent_reverts))
    /\ vendor_temp' = 704
    /\ current_temp' = Some(SettingFromVendor(704))
    /\ hstate' = update_temperature_status(
                     hstate, Some(SettingFromVendor(704)), expected_temp)
    /\ stats' = increment_checks(stats, now)
    /\ pc' = "set_post"
    /\ UNCHANGED <<now, ret, rv, got, attempt, sleep_i, running, auth, store,
                   next_token, login_at, ctrl_token, consecutive_errors,
                   recent_reverts, schedule, expected_temp,
                   arg, res,
                   schedule_file>>

\* the rest of the cycle and the time to the next hold command
HistoryWait ==
    /\ pc = "threshold"
    /\ now + Val(arg) <= MaxNow
    /\ now' = now + Val(arg)
    /\ pc' = "history"
    /\ UNCHANGED <<ret, rv, got, attempt, sleep_i, running, auth, store,
                   next_token, login_at, ctrl_token, consecutive_errors,
                   recent_reverts, stats, hstate, schedule, vendor_temp,
                   expected_temp, current_temp, cyc, arg, res,
                   schedule_file>>

InitHistory ==
    /\ now = 0
    /\ pc = "history"
    /\ ret = << >>
    /\ rv = FALSE
    /\ got = None
    /\ attempt = 0
    /\ sleep_i = 0
    /\ running = TRUE
    /\ auth = NoAuth
    /\ store = AbsentFile
    /\ next_token = 1
    /\ login_at = None
    /\ ctrl_token = None
    /\ consecutive_errors = 0
    /\ recent_reverts = << >>
    /\ stats = InitStats
    /\ hstate = InitHState
    /\ schedule = InitSchedules[1]
    /\ schedule_file = InitScheduleFile(1)
    /\ vendor_temp = 704
    /\ expected_temp = Some(get_expected_temperature(schedule, now))
    /\ current_temp = None
    /\ cyc = NewCycle(InitStats, 0, 0)
    /\ \E gap \in HistoryGaps : arg = Some(gap)
    /\ res = None

NextHistory ==
    \/ HistoryCycle
    \/ SetPost
    \/ HistoryWait

SpecHistory == InitHistory /\ [][NextHistory]_vars

(***************************************************************************)
(* The pace of the corrections: every cycle finds the setpoint changed and *)
(* sends a hold, and the loop sleeps its check interval between cycles.    *)
(***************************************************************************)
\* the values of CHECK_INTERVAL_MINUTES the service is run with
PaceIntervals == {1, 5, 6, 7, 10}

\* run() sleeping one minute whatever the check interval
PaceSleep_one_minute ==
    /\ pc = "threshold"
    /\ now + RETRY_SLEEP <= MaxNow
    /\ now' = now + RETRY_SLEEP
    /\ sleep_i' = RETRY_SLEEP
    /\ pc' = "history"
    /\ UNCHANGED <<ret, rv, got, attempt, running, auth, store,
                   next_token, login_at, ctrl_token, consecutive_errors,
                   recent_reverts, stats, hstate, schedule, vendor_temp,
                   expected_temp, current_temp, cyc, arg, res,
                   schedule_file>>

\* run(): the sleep loop from its first to its last iteration, with no
\* signal: check_interval_minutes * 60 times time.sleep(1)
PaceSleep ==
    /\ pc = "threshold"
    /\ now + Val(arg) * 60 <= MaxNow
    /\ now' = now + Val(arg) * 60
    /\ sleep_i' = Val(arg) * 60
    /\ pc' = "history"
    /\ UNCHANGED <<ret, rv, got, attempt, running, auth, store,
                   next_token, login_at, ctrl_token, consecutive_errors,
                   recent_reverts, stats, hstate, schedule, vendor_temp,
                   expected_temp, current_temp, cyc, arg, res,
                   schedule_file>>

InitPace ==
    /\ now = 0
    /\ pc = "history"
    /\ ret = << >>
    /\ rv = FALSE
    /\ got = None
    /\ attempt = 0
    /\ sleep_i = 0
    /\ running = TRUE
    /\ auth = NoAuth
    /\ store = AbsentFile
    /\ next_token = 1
    /\ login_at = None
    /\ ctrl_token = None
    /\ consecutive_errors = 0
    /\ recent_reverts = << >>
    /\ stats = InitStats
    /\ hstate = InitHState
    /\ schedule = InitSchedules[1]
    /\ schedule_file = InitScheduleFile(1)
    /\ vendor_temp = 704
    /\ expected_temp = Some(get_expected_temperature(schedule, now))
    /\ current_temp = None
    /\ cyc = NewCycle(InitStats, 0, 0)
    /\ \E interval \in PaceIntervals : arg = Some(interval)
    /\ res = None

NextPace ==
    \/ HistoryCycle
    \/ SetPost
    \/ PaceSleep

SpecPace == InitPace /\ [][NextPace]_vars

(***************************************************************************)
(* The schedule engine on its own: a schedule file is loaded and the       *)
(* expected temperature is looked up at one time.                          *)
(***************************************************************************)
\* the entries a schedule file declares for monday: 06:00 at 70, 22:00 at
\* 65 and 22:00 at 64, an entry at 22:00 and one at 06:00 that carry
\* "enabled": false, and the malformed ones: a time that is not HH:MM, no
\* time, no temperature, a temperature that is no numeral, and a null
\* temperature
MondayEntries ==
    { [time |-> Some(360), temperature |-> JNumber(70), enabled |-> TRUE],
      [time |-> Some(1320), temperature |-> JNumber(65), enabled |-> TRUE],
      [time |-> Some(1320), temperature |-> JNumber(64), enabled |-> TRUE],
      [time |-> Some(1320), temperature |-> JNumber(63), enabled |-> FALSE],
      [time |-> Some(360), temperature |-> JNumber(71), enabled |-> FALSE],
      [time |-> None, temperature |-> JNumber(75), enabled |-> TRUE],
      [temperature |-> JNumber(76)],
      [time |-> Some(360)],
      [time |-> Some(360), temperature |-> JString(None)],
      [time |-> Some(1320), temperature |-> JNull] }

\* the declared lists of at most n of these entries, in any order
RECURSIVE DeclaredLists(_)
DeclaredLists(n) ==
    IF n = 0 THEN { << >> }
    ELSE LET shorter == DeclaredLists(n - 1)
         IN  shorter \cup { Append(l, e) : l \in shorter, e \in MondayEntries }

\* what the file declares for tuesday: nothing, or 06:00 at 74
TuesdayLists ==
    { << >>, << FileEntry(360, 74) >> }

\* a schedule document with entries on monday and tuesday
ScheduleFile(mon, tue) ==
    [days |-> [d \in 0..6 |-> IF d = 0 THEN mon ELSE IF d = 1 THEN tue ELSE << >>],
     default_temperature |-> DEFAULT_TEMPERATURE]

\* a schedule document that declares the same entries for every day
DailyFile(entries) ==
    [days |-> [d \in 0..6 |-> entries],
     default_temperature |-> DEFAULT_TEMPERATURE]

ScheduleFiles ==
    { ScheduleFile(mon, tue) : mon \in DeclaredLists(MaxEntries), tue \in TuesdayLists }
    \cup { DailyFile(l) : l \in DeclaredLists(MaxEntries) }

\* hh:mm:ss on day d of the week (0 = monday), in seconds
At(d, hh, mm, ss) == d * 86400 + hh * 3600 + mm * 60 + ss

\* the times of the lookups: around 06:00 and 22:00 on monday and around
\* 06:00 on tuesday
LookupTimes ==
    { At(0, 5, 59, 59), At(0, 6, 0, 0), At(0, 21, 59, 59), At(0, 22, 0, 0),
      At(0, 23, 30, 0), At(1, 5, 59, 0), At(1, 6, 0, 0) }

\* ScheduleEngine.load_schedule() of the file, as initialize() calls it
LoadSchedule ==
    /\ pc = "schedule_file"
    /\ LET l == load_schedule(schedule, schedule_file)
       IN  /\ schedule' = l.engine
           /\ pc' = IF l.ok THEN "schedule_loaded" ELSE "load_failed"
    /\ UNCHANGED <<now, ret, rv, got, attempt, sleep_i, running, auth, store,
                   next_token, login_at, ctrl_token, consecutive_errors,
                   recent_reverts, stats, hstate, vendor_temp, expected_temp,
                   current_temp, cyc, arg, res,
                   schedule_file>>

\* ScheduleEngine.get_expected_temperature() at the current time
LookupExpected ==
    /\ pc = "schedule_loaded"
    /\ res' = Some(get_expected_temperature(schedule, now))
    /\ pc' = "looked_up"
    /\ UNCHANGED <<now, ret, rv, got, attempt, sleep_i, running, auth, store,
                   next_token, login_at, ctrl_token, consecutive_errors,
                   recent_reverts, stats, hstate, schedule, vendor_temp,
                   expected_temp, current_temp, cyc, arg,
                   schedule_file>>

InitSchedule ==
    /\ now \in LookupTimes
    /\ pc = "schedule_file"
    /\ ret = << >>
    /\ rv = FALSE
    /\ got = None
    /\ attempt = 0
    /\ sleep_i = 0
    /\ running = FALSE
    /\ auth = NoAuth
    /\ store = AbsentFile
    /\ next_token = 1
    /\ login_at = None
    /\ ctrl_token = None
    /\ consecutive_errors = 0
    /\ recent_reverts = << >>
    /\ stats = InitStats
    /\ hstate = InitHState
    /\ schedule = NewEngine
    /\ schedule_file \in { JsonScheduleFile(f, 1) : f \in ScheduleFiles }
    /\ vendor_temp = 680
    /\ expected_temp = None
    /\ current_temp = None
    /\ cyc = NewCycle(InitStats, 0, 0)
    /\ arg = None
    /\ res = None

NextSchedule ==
    \/ LoadSchedule
    \/ LookupExpected

SpecSchedule == InitSchedule /\ [][NextSchedule]_vars

(***************************************************************************)
(* The schedule engine from one minute to the next: the expected           *)
(* temperature is looked up, a minute passes, and it is looked up again.   *)
(***************************************************************************)
\* the minute before each midnight of the week, and on monday the minutes
\* before 06:00 and 22:00 and noon
MinutesBefore ==
    { At(d, 23, 59, 0) : d \in 0..6 }
    \cup { At(0, 5, 59, 0), At(0, 21, 59, 0), At(0, 12, 0, 0) }

\* the schedule documents looked up: those of ScheduleFiles, and the ones
\* whose tuesday begins with an entry at 00:00
MidnightFiles ==
    ScheduleFiles
    \cup { ScheduleFile(mon, << FileEntry(0, 72) >>) :
              mon \in DeclaredLists(MaxEntries) }

\* a minute passes between two lookups; arg keeps what the first returned
NextMinute ==
    /\ pc = "looked_up"
    /\ IsNone(arg)
    /\ arg' = res
    /\ now' = now + 60
    /\ pc' = "schedule_loaded"
    /\ UNCHANGED <<ret, rv, got, attempt, sleep_i, running, auth, store,
                   next_token, login_at, ctrl_token, consecutive_errors,
                   recent_reverts, stats, hstate, schedule, vendor_temp,
                   expected_temp, current_temp, cyc, res,
                   schedule_file>>

InitMidnight ==
    /\ now \in MinutesBefore
    /\ pc = "schedule_file"
    /\ ret = << >>
    /\ rv = FALSE
    /\ got = None
    /\ attempt = 0
    /\ sleep_i = 0
    /\ running = FALSE
    /\ auth = NoAuth
    /\ store = AbsentFile
    /\ next_token = 1
    /\ login_at = None
    /\ ctrl_token = None
    /\ consecutive_errors = 0
    /\ recent_reverts = << >>
    /\ stats = InitStats
    /\ hstate = InitHState
    /\ schedule = NewEngine
    /\ schedule_file \in { JsonScheduleFile(f, 1) : f \in MidnightFiles }
    /\ vendor_temp = 680
    /\ expected_temp = None
    /\ current_temp = None
    /\ cyc = NewCycle(InitStats, 0, 0)
    /\ arg = None
    /\ res = None

NextMidnight ==
    \/ LoadSchedule
    \/ LookupExpected
    \/ NextMinute

SpecMidnight == InitMidnight /\ [][NextMidnight]_vars

(***************************************************************************)
(* The reload of the schedule: the service runs its check cycles while     *)
(* somebody edits, removes or breaks the schedule file between them.       *)
(***************************************************************************)
\* the documents the schedule file holds over time: two well-formed ones;
\* one whose tuesday has an entry with a null temperature, one whose monday
\* has; one with entries that lack a key or whose values do not parse
ReloadDocs ==
    { TwoDays(<< FileEntry(480, 72) >>,
              << FileEntry(360, 70) >>, 68),
      TwoDays(<< FileEntry(480, 71) >>,
              << FileEntry(360, 69), FileEntry(1320, 64) >>, 66),
      TwoDays(<< FileEntry(480, 71) >>,
              << FileEntry(360, 69), [time |-> Some(1320), temperature |-> JNull] >>,
              66),
      TwoDays(<< [time |-> Some(480), temperature |-> JNull], FileEntry(600, 73) >>,
              << FileEntry(360, 69) >>, 67),
      TwoDays(<< [time |-> Some(480)], FileEntry(600, 73),
                 [time |-> None, temperature |-> JNumber(75)] >>,
              << [time |-> Some(360), temperature |-> JString(None)],
                 FileEntry(1320, 64) >>, 67) }

\* the documents the service can have loaded when it started
LoadableDocs ==
    { doc \in ReloadDocs :
        load_schedule(NewEngine, JsonScheduleFile(doc, 1)).ok }

\* what is found in place of the schedule file when it was touched at time t
TouchedFiles(t) ==
    { AbsentScheduleFile, InvalidScheduleFile(t) }
    \cup { JsonScheduleFile(doc, t) : doc \in ReloadDocs }

\* the rest of the cycle and the sleep of CheckIntervalMinutes; meanwhile the
\* schedule file may be touched
ReloadNextCycle ==
    /\ pc = "fetch"
    /\ cyc.lookups < MaxReloads
    /\ now + CheckIntervalMinutes * 60 <= MaxNow
    /\ now' = now + CheckIntervalMinutes * 60
    /\ \/ UNCHANGED schedule_file
       \/ schedule_file' \in TouchedFiles(now')
    /\ pc' = "check"
    /\ UNCHANGED <<ret, rv, got, attempt, sleep_i, running, auth, store,
                   next_token, login_at, ctrl_token, consecutive_errors,
                   recent_reverts, stats, hstate, schedule, vendor_temp,
                   expected_temp, current_temp, cyc, arg, res>>

\* the service is about to run a check cycle with a schedule it loaded at
\* startup; the file is as it was, or was touched since
InitReload ==
    /\ now \in { At(0, 23, 30, 0), At(1, 6, 0, 0) }
    /\ pc = "check"
    /\ ret = << >>
    /\ rv = FALSE
    /\ got = None
    /\ attempt = 0
    /\ sleep_i = 0
    /\ running = TRUE
    /\ auth = NoAuth
    /\ store = AbsentFile
    /\ next_token = 1
    /\ login_at = None
    /\ ctrl_token = None
    /\ consecutive_errors = 0
    /\ recent_reverts = << >>
    /\ stats = InitStats
    /\ hstate = InitHState
    /\ \E doc \in LoadableDocs :
         /\ schedule = load_schedule(NewEngine, JsonScheduleFile(doc, 1)).engine
         /\ \/ schedule_file = JsonScheduleFile(doc, 1)
            \/ schedule_file \in TouchedFiles(now - 1)
    /\ vendor_temp = 680
    /\ expected_temp = None
    /\ current_temp = None
    /\ cyc = NewCycle(InitStats, 0, 0)
    /\ arg = None
    /\ res = None

NextReload ==
    \/ CheckExpected
    \/ ReloadNextCycle

SpecReload == InitReload /\ [][NextReload]_vars

(***************************************************************************)
(* Harness state: the service's own variables while one operation is       *)
(* applied on its own.                                                     *)
(***************************************************************************)
ServiceAtRest ==
    /\ ret = << >>
    /\ rv = FALSE
    /\ got = None
    /\ attempt = 0
    /\ sleep_i = 0
    /\ running = FALSE
    /\ auth = NoAuth
    /\ store = AbsentFile
    /\ next_token = 1
    /\ login_at = None
    /\ ctrl_token = None
    /\ consecutive_errors = 0
    /\ recent_reverts = << >>
    /\ stats = InitStats
    /\ hstate = InitHState
    /\ schedule = InitSchedules[1]
    /\ schedule_file = InitScheduleFile(1)
    /\ expected_temp = None
    /\ current_temp = None
    /\ cyc = NewCycle(InitStats, 0, 0)

(***************************************************************************)
(* get_current_temperature_setting applied to an answer of the vendor.     *)
(***************************************************************************)
\* the events the vendor can report in position i of the list: running or
\* not, a hold or a vacation, with or without heat and cool hold
\* temperatures; the temperatures tell the position and the field
EventsAt(i) ==
    { [running |-> r, type |-> ty, heatHoldTemp |-> h, coolHoldTemp |-> c] :
        r \in BOOLEAN, ty \in {"hold", "vacation"},
        h \in {None, Some(600 + 20 * i)}, c \in {None, Some(700 + 20 * i)} }

\* the lists of n events
RECURSIVE EventLists(_)
EventLists(n) ==
    IF n = 0 THEN { << >> }
    ELSE { Append(l, e) : l \in EventLists(n - 1), e \in EventsAt(n) }

\* the thermostats of an answer: events and the runtime's desired
\* temperatures
Thermostats ==
    { [events |-> evs, desiredHeat |-> dh, desiredCool |-> dc] :
        evs \in UNION { EventLists(n) : n \in 0..MaxEvents },
        dh \in {None, Some(665)}, dc \in {None, Some(765)} }

\* what get_thermostats() returns: None, no thermostat, or one
ThermostatAnswers ==
    { None, Some(<< >>) } \cup { Some(<< th >>) : th \in Thermostats }

GetSetting ==
    /\ pc = "answer"
    /\ res' = Some(get_current_temperature_setting(arg))
    /\ pc' = "setting"
    /\ UNCHANGED <<now, ret, rv, got, attempt, sleep_i, running, auth, store,
                   next_token, login_at, ctrl_token, consecutive_errors,
                   recent_reverts, stats, hstate, schedule, vendor_temp,
                   expected_temp, current_temp, cyc, arg, schedule_file>>

InitSetting ==
    /\ ServiceAtRest
    /\ now = 0
    /\ pc = "answer"
    /\ vendor_temp = 680
    /\ arg \in ThermostatAnswers
    /\ res = None

NextSetting == GetSetting

SpecSetting == InitSetting /\ [][NextSetting]_vars

(***************************************************************************)
(* select_sensors_toward_target applied to the sensors of a thermostat.    *)
(***************************************************************************)
\* the readings of a sensor: none or unknown, or a temperature in tenths
SensorTemps == {None, Some(690), Some(700), Some(710)}

\* the lists of n sensors; the id of a sensor is its position, two sensors
\* can have the same name
RECURSIVE SensorLists(_)
SensorLists(n) ==
    IF n = 0 THEN { << >> }
    ELSE { Append(l, [id |-> n, name |-> nm, temperature |-> t]) :
             l \in SensorLists(n - 1), nm \in {"den", "hall"}, t \in SensorTemps }

\* the targets, in tenths: below, between, at and above the readings
SensorTargets == {680, 695, 700, 720}

\* no climate sensor map, or one that knows the sensor named den
ClimateSensorMaps == { None, Some([nm \in {"den"} |-> 91]) }

SelectSensors ==
    /\ pc = "sensors"
    /\ res' = Some(select_sensors_toward_target(
                       arg.raw_sensors, arg.target_temp, arg.climate_sensor_map))
    /\ pc' = "selected"
    /\ UNCHANGED <<now, ret, rv, got, attempt, sleep_i, running, auth, store,
                   next_token, login_at, ctrl_token, consecutive_errors,
                   recent_reverts, stats, hstate, schedule, vendor_temp,
                   expected_temp, current_temp, cyc, arg, schedule_file>>

InitSelect ==
    /\ ServiceAtRest
    /\ now = 0
    /\ pc = "sensors"
    /\ vendor_temp = 680
    /\ arg \in [raw_sensors : UNION { SensorLists(n) : n \in 0..MaxSensors },
                target_temp : SensorTargets,
                climate_sensor_map : ClimateSensorMaps]
    /\ res = None

NextSelect == SelectSensors

SpecSelect == InitSelect /\ [][NextSelect]_vars

(***************************************************************************)
(* One cycle of check_and_update_temperature against every setpoint the    *)
(* vendor can report near the expected temperatures.                       *)
(***************************************************************************)
\* tuesday before the first entry (the default, 68), after it (70) and after
\* the second entry (65) of the schedule of scenario 2
CycleTimes == { At(1, 5, 0, 0), At(1, 7, 0, 0), At(1, 14, 52, 0) }

\* the setpoints the vendor reports, in tenths
CycleSetpoints == (650 - MatchSpan)..(700 + MatchSpan)

\* run() is in its loop with a loaded schedule and a credential, and the
\* cycle is about to look up the expected temperature; arg keeps the
\* setpoint the vendor reports to this cycle
InitCycle ==
    /\ now \in CycleTimes
    /\ pc = "check"
    /\ ret = << >>
    /\ rv = FALSE
    /\ got = None
    /\ attempt = 0
    /\ sleep_i = 0
    /\ running = TRUE
    /\ auth = LoginCredential(0, now)
    /\ store = AbsentFile
    /\ next_token = 1
    /\ login_at = Some(now)
    /\ ctrl_token = auth.jwt_token
    /\ consecutive_errors = 0
    /\ recent_reverts = << >>
    /\ stats = InitStats
    /\ hstate = update_token_status(update_schedule_status(InitHState, TRUE),
                                    TRUE, auth.token_expires_at)
    /\ schedule = InitSchedules[2]
    /\ schedule_file = InitScheduleFile(2)
    /\ vendor_temp \in CycleSetpoints
    /\ expected_temp = None
    /\ current_temp = None
    /\ cyc = NewCycle(InitStats, 0, 0)
    /\ arg = vendor_temp
    /\ res = None

NextCycle ==
    \/ CheckExpected
    \/ FetchActual
    \/ SetGet
    \/ SetPost

SpecCycle == InitCycle /\ [][NextCycle]_vars

(***************************************************************************)
(* ecobee_cli.py: main() loads the token file, builds a controller and     *)
(* dispatches the command.                                                 *)
(***************************************************************************)
\* ecobee_cli.load_token(): exits when there is no file, when the file is
\* not JSON (json.load raises) or when it holds no token; prints a warning
\* when token_expires_at is in the past, and returns the token
cli_load_token(s, t) ==
    IF s.kind # "json" \/ IsNone(s.jwt_token)
    THEN [ok |-> FALSE, token |-> None, warned |-> FALSE]
    ELSE [ok |-> TRUE, token |-> s.jwt_token,
          warned |-> /\ ~IsNone(s.token_expires_at)
                     /\ t > fromisoformat(Val(s.token_expires_at))]

\* the commands of the tool, and one that is none of them
CliCommands == {"status", "get", "set", "sensors", "lean", "schedule",
                "schedule-night", "dump-program", "bogus"}

\* the commands that read their argument before they call the controller
CliCommandsWithArgument == {"set", "lean"}

\* the token files the tool is run with at time t: none, not JSON, without a
\* token, without an expiry, and with an expiry an hour ago, one second ago,
\* now, and in five minutes
CliFiles(t) ==
    { AbsentFile, CorruptFile, TokenConfig(NoAuth),
      TokenConfig([jwt_token |-> Some(0), token_expires_at |-> None,
                   last_refreshed |-> None]) }
    \cup { StoredCredential(t, ttl) : ttl \in {0 - 3600, 0 - 1, 0, 300} }

\* main(), lines 292-294: load_token() and the controller
CliMain ==
    /\ pc = "cli_main"
    /\ LET l == cli_load_token(store, now)
       IN  IF ~l.ok
           THEN /\ pc' = "cli_exit"
                /\ UNCHANGED <<ctrl_token, res>>
           ELSE /\ ctrl_token' = l.token
                /\ res' = Some(l.warned)
                /\ pc' = "cli_command"
    /\ UNCHANGED <<now, ret, rv, got, attempt, sleep_i, running, auth, store,
                   next_token, login_at, consecutive_errors, recent_reverts,
                   stats, hstate, schedule, vendor_temp, expected_temp,
                   current_temp, cyc, arg, schedule_file>>

\* main(), lines 296-315: the command, up to the first request its handler
\* sends to the vendor with the controller's token.  set and lean exit on a
\* missing or invalid argument, an unknown command prints the usage.
CliCommand ==
    /\ pc = "cli_command"
    /\ IF arg.command = "bogus"
          \/ (arg.command \in CliCommandsWithArgument /\ ~arg.valid)
       THEN /\ pc' = "cli_exit"
            /\ UNCHANGED cyc
       ELSE /\ cyc' = [cyc EXCEPT !.fetches = @ + 1]
            /\ pc' = "cli_requested"
    /\ UNCHANGED <<now, ret, rv, got, attempt, sleep_i, running, auth, store,
                   next_token, login_at, ctrl_token, consecutive_errors,
                   recent_reverts, stats, hstate, schedule, vendor_temp,
                   expected_temp, current_temp, arg, res, schedule_file>>

\* the tool is started with a token file, a command and an argument that
\* is valid or not
InitCli ==
    /\ now = MaxNow
    /\ pc = "cli_main"
    /\ ret = << >>
    /\ rv = FALSE
    /\ got = None
    /\ attempt = 0
    /\ sleep_i = 0
    /\ running = FALSE
    /\ auth = NoAuth
    /\ store \in CliFiles(now)
    /\ next_token = 1
    /\ login_at = None
    /\ ctrl_token = None
    /\ consecutive_errors = 0
    /\ recent_reverts = << >>
    /\ stats = InitStats
    /\ hstate = InitHState
    /\ schedule = InitSchedules[1]
    /\ schedule_file = InitScheduleFile(1)
    /\ vendor_temp = 680
    /\ expected_temp = None
    /\ current_temp = None
    /\ cyc = NewCycle(InitStats, 0, 0)
    /\ arg \in [command : CliCommands, valid : BOOLEAN]
    /\ res = None

NextCli ==
    \/ CliMain
    \/ CliCommand

SpecCli == InitCli /\ [][NextCli]_vars

(***************************************************************************)
(* update_night_schedule applied to the program of a thermostat.           *)
(***************************************************************************)
\* the program the vendor reports: four climates and, for each of the seven
\* days, the 48 half-hour slots; the days differ in when sleep ends
NightProgram ==
    [thermostat_id |-> 1,
     climates |-> << [climateRef |-> "home", heatTemp |-> 700],
                     [climateRef |-> "away", heatTemp |-> 620],
                     [climateRef |-> "sleep", heatTemp |-> 660],
                     [climateRef |-> "smart1", heatTemp |-> 680] >>,
     schedule |-> [d \in 1..7 |->
                     [slot \in 0..47 |->
                         IF slot < 11 + d THEN "sleep"
                         ELSE IF slot < 34 THEN "away"
                         ELSE IF slot < 45 THEN "home" ELSE "sleep"]]]

\* the calls: the climate and the alternate climate are in the program or
\* not ("nap" is not), every window of whole hours, with and without dry_run
NightCalls ==
    [climate_ref : {"sleep", "nap"},
     alt_climate_ref : {None, Some("smart1"), Some("nap")},
     start_hour : 0..23,
     end_hour : 0..23,
     dry_run : BOOLEAN]

\* update_night_schedule(): the read of the program, the body, and the POST
\* unless dry_run.  res keeps what the call returned, the bodies it posted
\* and the number of requests that read the program.
UpdateNightSchedule ==
    /\ pc = "night"
    /\ \E read \in {"ok", "fail"}, post \in {"ok", "rejected", "fail"} :
         LET info == IF read = "ok" THEN Some(NightProgram) ELSE None
             b == night_schedule_body(info, 67, arg.climate_ref,
                                      arg.alt_climate_ref, arg.start_hour,
                                      arg.end_hour, TRUE)
         IN  /\ (~b.ok \/ arg.dry_run) => post = "ok"
             /\ res' = Some(
                   IF ~b.ok THEN [ok |-> FALSE, returned |-> None, posted |-> << >>]
                   ELSE IF arg.dry_run
                   THEN [ok |-> TRUE, returned |-> b.body, posted |-> << >>]
                   ELSE [ok |-> post = "ok", returned |-> None,
                         posted |-> << Val(b.body) >>])
             /\ cyc' = [cyc EXCEPT !.fetches = @ + 1]
    /\ pc' = "night_done"
    /\ UNCHANGED <<now, ret, rv, got, attempt, sleep_i, running, auth, store,
                   next_token, login_at, ctrl_token, consecutive_errors,
                   recent_reverts, stats, hstate, schedule, vendor_temp,
                   expected_temp, current_temp, arg, schedule_file>>

InitNight ==
    /\ ServiceAtRest
    /\ now = 0
    /\ pc = "night"
    /\ vendor_temp = 680
    /\ arg \in NightCalls
    /\ res = None

NextNight == UpdateNightSchedule

SpecNight == InitNight /\ [][NextNight]_vars

(***************************************************************************)
(* temperatures_match applied to a setting and an expected temperature.    *)
(***************************************************************************)
\* expected temperatures temperatures_match is checked with, in tenths
MatchExpected == {670, 680, 685, 690}

ApplyMatch ==
    /\ pc = "pure"
    /\ res' = Some(temperatures_match(arg[1], arg[2]))
    /\ pc' = "applied"
    /\ UNCHANGED <<now, ret, rv, got, attempt, sleep_i, running, auth, store,
                   next_token, login_at, ctrl_token, consecutive_errors,
                   recent_reverts, stats, hstate, schedule, vendor_temp,
                   expected_temp, current_temp, cyc, arg,
                   schedule_file>>

InitMatch ==
    /\ now = 0
    /\ pc = "pure"
    /\ ret = << >>
    /\ rv = FALSE
    /\ got = None
    /\ attempt = 0
    /\ sleep_i = 0
    /\ running = FALSE
    /\ auth = NoAuth
    /\ store = AbsentFile
    /\ next_token = 1
    /\ login_at = None
    /\ ctrl_token = None
    /\ consecutive_errors = 0
    /\ recent_reverts = << >>
    /\ stats = InitStats
    /\ hstate = InitHState
    /\ schedule = InitSchedules[1]
    /\ schedule_file = InitScheduleFile(1)
    /\ vendor_temp = 680
    /\ expected_temp = None
    /\ current_temp = None
    /\ cyc = NewCycle(InitStats, 0, 0)
    /\ arg \in ((680 - MatchSpan)..(680 + MatchSpan)) \X MatchExpected
    /\ res = None

NextMatch == ApplyMatch

SpecMatch == InitMatch /\ [][NextMatch]_vars

(***************************************************************************)
(* Properties of the service loop (Spec).                                  *)
(***************************************************************************)
\* the main thread is about to issue a vendor call: the fetch of the current
\* setpoint, set_temperature()'s own fetch, or the setHold request
VendorCallPcs == {"fetch", "set_get", "set_post"}

\* C1: every vendor call of the loop is made with a credential that is not
\* past its expiresAt: whenever the loop is about to fetch the setpoint or to
\* send a hold, the controller holds the credential manager's token and now
\* is before that token's expiresAt.
C1_VendorCallsUseUnexpiredCredential ==
    pc \in VendorCallPcs =>
        /\ ~IsNone(ctrl_token)
        /\ ctrl_token = auth.jwt_token
        /\ ~IsNone(auth.token_expires_at)
        /\ now < Val(auth.token_expires_at)

\* C1 witness: a hold is about to be sent inside the refresh buffer of a
\* credential that was still outside it when the cycle began
C1_Witness ==
    /\ pc = "set_post"
    /\ ~IsNone(auth.token_expires_at)
    /\ Val(auth.token_expires_at) - now < 300

\* C2: a cycle that fetched the setpoint, found a mismatch and whose hold
\* succeeded has sent exactly one hold, at the expected temperature, counted
\* exactly one correction and appended exactly one timestamp; a cycle whose
\* temperatures match sends no hold and records no correction.
C2_OneCorrectionPerMismatch ==
    (pc = "threshold" /\ ~IsNone(current_temp)) =>
        IF Abs(Val(current_temp) * 10 - Val(expected_temp) * 10) <= 5
        THEN /\ cyc.holds = << >>
             /\ stats.reverts_performed = cyc.reverts0
             /\ Len(recent_reverts) = cyc.history0
        ELSE /\ Len(cyc.holds) <= 1
             /\ cyc.result = "corrected" =>
                   /\ cyc.fetches = 1
                   /\ cyc.holds = << Val(expected_temp) * 10 >>
                   /\ stats.reverts_performed = cyc.reverts0 + 1
                   /\ Len(recent_reverts) = Min(60, cyc.history0 + 1)
                   /\ recent_reverts[Len(recent_reverts)] = now
                   /\ stats.last_revert = Some(now)
             /\ cyc.result # "corrected" =>
                   /\ stats.reverts_performed = cyc.reverts0
                   /\ Len(recent_reverts) = cyc.history0

\* C2 witness: a cycle corrected a setpoint of 68.0 to the scheduled 65
C2_Witness ==
    /\ pc = "threshold"
    /\ cyc.result = "corrected"
    /\ current_temp = Some(68)
    /\ cyc.holds = << 650 >>

\* C26: a failed vendor call is never retried within the same cycle: a cycle
\* asks for the current setpoint at most once and sends at most one hold
\* command, and once a call of the cycle has failed the loop issues no
\* vendor call until the next cycle has begun.
C26_NoRetryWithinCycle ==
    /\ cyc.fetches <= 1
    /\ Len(cyc.holds) <= 1
    /\ cyc.result \in {"fetch_failed", "exception", "set_failed"} =>
          pc \notin VendorCallPcs

\* C26 witness: a cycle read the setpoint once, its one hold command failed,
\* and the loop is waiting for the next cycle
C26_Witness ==
    /\ pc = "sleep"
    /\ cyc.result = "set_failed"
    /\ cyc.fetches = 1
    /\ Len(cyc.holds) = 1

\* C27: both surfaced failures are reported to the status sink: the step in
\* which a refresh returns after exhausting its retries leaves the sink's
\* token_valid false, the step in which a refresh returns successfully
\* leaves it true, and the step in which run() finds the consecutive-error
\* counter at the threshold changes what the sink holds.
C27_SurfacedFailuresReachSink ==
    [][/\ (pc = "rtin_ret" /\ pc' # pc /\ ~rv) => ~hstate'.token_valid
       /\ (pc = "rtin_ret" /\ pc' # pc /\ rv) => hstate'.token_valid
       /\ (pc = "threshold" /\ pc' # pc /\ consecutive_errors >= ERROR_THRESHOLD) =>
             << stats', hstate' >> # << stats, hstate >>]_vars

\* no entry of the schedule covers time t: the day has no entries, or none
\* at or before t and the day before has none to carry over
NoEntryCovers(sch, t) ==
    \/ Len(sch.days[DayOf(t)]) = 0
    \/ /\ \A i \in 1..Len(sch.days[DayOf(t)]) :
            sch.days[DayOf(t)][i].time * 60 > TimeOfDay(t)
       /\ Len(sch.days[(DayOf(t) + 6) % 7]) = 0

C7_LoginAttemptsBounded ==
    /\ [](cyc.logins <= 3 /\ attempt <= 2)
    /\ [](pc = "refresh_token" => ret # <<"get_token_ret", "rtin_tok">>)
    /\ [][(pc = "refresh_token" /\ cyc'.logins = cyc.logins + 1) =>
             IF next_token' # next_token
             THEN pc' # "refresh_token" /\ rv'
             ELSE IF attempt = 2
                  THEN pc' # "refresh_token" /\ ~rv'
                  ELSE pc' = "refresh_token" /\ attempt' = attempt + 1]_vars

\* C7 witness: in a loop cycle the refresh succeeded on its third attempt
\* and get_token() has returned the new token
C7_Witness ==
    /\ pc = "rtin_tok"
    /\ cyc.logins = 3
    /\ ~IsNone(got)
    /\ got = auth.jwt_token

\* C10: a cycle whose refresh exhausted its retries does no schedule lookup,
\* no fetch and no hold, leaves the check, correction and consecutive-error
\* counters unchanged, marks the credential invalid in the status sink,
\* waits, and the next cycle starts with a new refresh attempt (or ends in
\* run()'s `except Exception` before it).
C10_FailedRefreshSkipsCycle ==
    /\ [](pc = "retry_sleep" =>
            /\ cyc.refresh_due
            /\ cyc.logins = 3
            /\ cyc.lookups = 0
            /\ cyc.fetches = 0
            /\ cyc.holds = << >>
            /\ stats.checks_performed = cyc.checks0
            /\ stats.reverts_performed = cyc.reverts0
            /\ consecutive_errors = cyc.errors0
            /\ ~hstate.token_valid)
    /\ [][pc = "retry_sleep" => pc' \in {"retry_sleep", "loop"}]_vars
    /\ [][(pc = "retry_sleep" /\ pc' = "loop") => now' >= now + 60]_vars
    /\ [][(pc = "refresh_if_needed" /\ ~hstate.token_valid) =>
             pc' \in {"refresh_if_needed", "refresh_token", "error_sleep"}]_vars

\* C10 witness: the cycle after a failed refresh has started a new refresh
C10_Witness ==
    /\ pc = "refresh_token"
    /\ ret = <<"rtin_ret">>
    /\ ~hstate.token_valid
    /\ cyc.logins = 0

\* the results of a check cycle that failed: the fetch of the setpoint
\* failed or raised, or the hold command failed
FailedResults == {"fetch_failed", "exception", "set_failed"}

\* the loop is waiting: the sleep between cycles, or the wait after a failed
\* refresh or after an unexpected error
WaitPcs == {"sleep", "retry_sleep", "error_sleep"}

\* C11: a check cycle whose fetch or hold failed has incremented the
\* consecutive-error counter by exactly 1 and a check cycle that completed
\* without failure has reset it to 0; the threshold message is logged exactly
\* when the counter is 3 after a cycle (a failed cycle that started with 2),
\* and the counter is then reset to 0; the counter never exceeds 3 and is at
\* most 2 while the loop is waiting.
C11_ConsecutiveErrorCounter ==
    /\ [](consecutive_errors \in 0..3)
    /\ [](pc \in WaitPcs => consecutive_errors <= 2)
    /\ [](pc = "threshold" =>
            IF cyc.result \in FailedResults
            THEN consecutive_errors = cyc.errors0 + 1
            ELSE cyc.result \in {"matched", "corrected"} /\ consecutive_errors = 0)
    /\ [][(pc = "threshold" /\ pc' # "threshold") =>
             /\ cyc'.threshold_logged <=> consecutive_errors = 3
             /\ consecutive_errors' =
                    IF consecutive_errors = 3 THEN 0 ELSE consecutive_errors
             /\ consecutive_errors = 3 =>
                    (cyc.errors0 = 2 /\ cyc.result \in FailedResults)]_vars
    /\ [][(cyc'.threshold_logged /\ ~cyc.threshold_logged) =>
             pc = "threshold"]_vars

\* C11 witness: the third failed check cycle in a row logged the threshold
\* message and the loop sleeps with the counter back at 0
C11_Witness ==
    /\ pc = "sleep"
    /\ cyc.threshold_logged
    /\ cyc.errors0 = 2
    /\ cyc.result \in FailedResults
    /\ consecutive_errors = 0
    /\ stats.errors = 3

\* the main thread is at the end of a cycle that failed: a check cycle that
\* failed, a cycle skipped after a failed refresh, or a cycle that ended in
\* run()'s `except Exception`
FailedCycleDone ==
    \/ pc = "threshold" /\ cyc.result \in FailedResults
    \/ pc = "retry_sleep" /\ cyc.result = "refresh_failed"
    \/ pc = "error_sleep" /\ cyc.result = "unexpected_error"

\* the main thread is at the start of a new cycle
CycleStarted == pc = "refresh_if_needed" /\ cyc.result = "started"

\* C12: whatever fails inside a cycle (the refresh, a vendor call, an
\* exception), the loop is left only when the shutdown flag was found
\* cleared, the process does not exit from inside the loop, and after every
\* failed cycle a further cycle is eventually started unless a shutdown is
\* requested.
C12_LoopNeverHalts ==
    /\ [][(pc # "shutdown" /\ pc' = "shutdown") => (pc = "loop" /\ ~running)]_vars
    /\ [][(pc \in LoopPcs \cup {"refresh_token", "get_token", "get_token_ret"})
             => pc' # "exit"]_vars
    /\ [][(FailedCycleDone /\ pc' # pc) =>
             pc' \in {"loop", "sleep"}]_vars
    /\ (FailedCycleDone /\ running) ~>
           (CycleStarted \/ ~running \/ HorizonReached)

\* C12 witness: a further cycle has started after a cycle whose refresh
\* failed, with the credential still marked invalid
C12_Witness ==
    /\ CycleStarted
    /\ running
    /\ ~hstate.token_valid
    /\ cyc.logins = 0
    /\ stats.token_refreshes = 0

\* the main thread is inside run()'s loop, the calls of refresh_token() and
\* get_token() made from it included
InLoop ==
    \/ pc \in LoopPcs
    \/ /\ pc \in {"refresh_token", "get_token", "get_token_ret"}
       /\ ret # << >>
       /\ ret[Len(ret)] \in {"rtin_ret", "rtin_tok"}

\* a shutdown request was observed while the loop is running
ShutdownObserved == InLoop /\ ~running

\* the main thread is past the refresh and the check of its cycle
PastCyclePcs == {"threshold", "sleep", "retry_sleep", "error_sleep", "loop",
                 "shutdown", "stopped"}

\* C13: once a shutdown request is observed while the loop runs, the request
\* stays, the cycle in flight is not abandoned (the main thread goes on to
\* the cycle's own end, a check cycle reaching the threshold test with its
\* result), no further cycle is started and no login, fetch or hold is made
\* after the cycle's end, and the loop is eventually left, shutdown()
\* running once and nothing after it.
C13_ShutdownCompletesCycleAndExits ==
    /\ [][ShutdownObserved => ~running']_vars
    /\ [][(ShutdownObserved /\ pc # "refresh_if_needed") =>
             pc' # "refresh_if_needed"]_vars
    /\ [][(~running /\ pc \in PastCyclePcs) =>
             /\ pc' \in PastCyclePcs
             /\ cyc'.logins = cyc.logins
             /\ cyc'.fetches = cyc.fetches
             /\ cyc'.holds = cyc.holds
             /\ vendor_temp' = vendor_temp]_vars
    /\ [](pc = "threshold" => cyc.result \in FailedResults \cup {"matched", "corrected"})
    /\ [][(ShutdownObserved /\ pc \notin PastCyclePcs) =>
             pc' \notin {"loop", "sleep", "shutdown", "stopped", "exit"}]_vars
    /\ ShutdownObserved ~> (pc = "stopped" \/ HorizonReached)
    /\ [][pc' = "stopped" => pc \in {"shutdown", "stopped"}]_vars
    /\ [][pc = "shutdown" => pc' \in {"shutdown", "stopped"}]_vars
    /\ [][pc = "stopped" => pc' = "stopped"]_vars

\* C13 witness: the service has stopped after a cycle that corrected the
\* setpoint and did not sleep
C13_Witness ==
    /\ pc = "stopped"
    /\ ~running
    /\ cyc.result = "corrected"
    /\ sleep_i = 0

\* C14: whenever the loop is waiting (the sleep between cycles, the wait
\* after a failed refresh, the wait after an unexpected error) and a shutdown
\* request has been made, the wait ends with the main thread's next step, at
\* most one second later.
C14_ShutdownHonoredWithinOneTick ==
    [][(pc \in WaitPcs /\ ~running) =>
          (pc' = "loop" /\ now' <= now + 1)]_vars

\* C17: a status request served at any point of a cycle reads the sink as it
\* is in that state, and never reads a mixed snapshot: the current
\* temperature it shows is paired with the expected temperature of the same
\* cycle, and once the last-correction timestamp and counter are those of a
\* correction made after the last reading, the current temperature shown is
\* not the reading from before that correction.
C17_StatusSnapshotNeverMixed ==
    /\ (pc \in {"set_get", "set_post", "threshold"} /\ ~IsNone(current_temp)) =>
           /\ hstate.current_temperature = current_temp
           /\ hstate.expected_temperature = expected_temp
    /\ (/\ ~IsNone(stats.last_revert)
        /\ ~IsNone(stats.last_check)
        /\ Val(stats.last_revert) >= Val(stats.last_check)
        /\ stats.reverts_performed > 0) =>
           temperatures_match(Val(hstate.current_temperature) * 10,
                              Val(hstate.expected_temperature) * 10)

(***************************************************************************)
(* Properties of the correction history (SpecHistory).                     *)
(***************************************************************************)
\* C15: after a successful correction the excessive-change message is
\* logged when the 11th most recent recorded correction (the one just
\* recorded included) is less than 60 minutes old, and only when it is at
\* most 60 minutes old: 11 corrections within the hour trigger it, 10 do
\* not, older ones do not count; the correction is made and recorded
\* whether or not the message is logged, and no other cycle logs it.
C15_ExcessiveChangesOverTen ==
    pc = "threshold" =>
        LET n == Len(recent_reverts)
        IN  IF cyc.result = "corrected"
            THEN /\ (n >= 11 /\ recent_reverts[n - 10] > now - 3600)
                       => cyc.excessive_logged
                 /\ cyc.excessive_logged
                       => (n >= 11 /\ recent_reverts[n - 10] >= now - 3600)
                 /\ stats.reverts_performed <= 10 => ~cyc.excessive_logged
                 /\ recent_reverts[n] = now
                 /\ stats.reverts_performed = cyc.reverts0 + 1
                 /\ cyc.holds = << 680 >>
                 /\ vendor_temp = 680
            ELSE ~cyc.excessive_logged

\* C15 witness: the 11th correction within the hour logged the message
C15_Witness ==
    /\ pc = "threshold"
    /\ cyc.result = "corrected"
    /\ cyc.excessive_logged
    /\ Len(recent_reverts) = 11
    /\ stats.reverts_performed = 11

\* C16: the correction history never holds more than 60 timestamps, its
\* timestamps are in non-decreasing order, it changes only when a hold
\* command has succeeded, and then by the append of the current time, the
\* oldest timestamp being evicted when it held 60.
C16_HistoryBoundedFifo ==
    /\ [](Len(recent_reverts) <= 60)
    /\ [](\A i \in 1..(Len(recent_reverts) - 1) :
             recent_reverts[i] <= recent_reverts[i + 1])
    /\ [][recent_reverts' # recent_reverts =>
             /\ pc = "set_post"
             /\ cyc'.result = "corrected"
             /\ recent_reverts' =
                    (IF Len(recent_reverts) = 60 THEN Tail(recent_reverts)
                     ELSE recent_reverts) \o << now' >>]_vars
    /\ [][(pc = "set_post" /\ pc' # pc) =>
             (cyc'.result = "corrected" <=> recent_reverts' # recent_reverts)]_vars

\* C16 witness: the 62nd successful hold was recorded in a full history,
\* from which the first two timestamps have been evicted
C16_Witness ==
    /\ Len(recent_reverts) = 60
    /\ stats.reverts_performed = 62
    /\ recent_reverts[1] = 32
    /\ recent_reverts[60] = now

(***************************************************************************)
(* Properties of the pace of the corrections (SpecPace).                   *)
(***************************************************************************)
\* the recorded corrections of the 60 minutes up to now
WindowCount ==
    Cardinality({ i \in 1..Len(recent_reverts) : recent_reverts[i] > now - 3600 })

\* C40: with a check interval of I minutes at most ceil(60 / I) corrections
\* fall within the 60 minutes up to any moment, successive corrections being
\* at least I minutes apart; with an interval of 10 minutes there are never
\* more than 6 and the excessive-change message is never logged; it is
\* logged only with an interval of 5 minutes or less.
C40_CorrectionsPerHourBounded ==
    LET interval == Val(arg)
    IN  /\ WindowCount <= (60 + interval - 1) \div interval
        /\ \A i \in 1..(Len(recent_reverts) - 1) :
               recent_reverts[i + 1] - recent_reverts[i] >= interval * 60
        /\ interval = 10 => (WindowCount <= 6 /\ ~cyc.excessive_logged)
        /\ cyc.excessive_logged => interval <= 5

\* run() in the service (Spec): a cycle that made a correction is followed
\* by the whole sleep loop before the next cycle begins
FullSleepAfterCorrection ==
    [][(pc = "loop" /\ pc' = "refresh_if_needed" /\ cyc.result = "corrected") =>
           sleep_i = CheckIntervalMinutes * 60]_vars

\* C40 witness: with the interval of 10 minutes the sixth correction within
\* the hour has been recorded, and no message was logged
C40_Witness ==
    /\ arg = Some(10)
    /\ pc = "threshold"
    /\ cyc.result = "corrected"
    /\ WindowCount = 6
    /\ stats.reverts_performed >= 7
    /\ ~cyc.excessive_logged

Declared == schedule_file.doc.days[DayOf(now)]

\* the declared entry is one load_schedule() keeps
Parses(entry) == EntryError(entry) = "none"

\* the declared entries whose window covers the time of the lookup: those
\* that parse and have the latest time at or before it
Covering ==
    { i \in 1..Len(Declared) :
        /\ Parses(Declared[i])
        /\ Val(Declared[i].time) * 60 <= TimeOfDay(now)
        /\ \A j \in 1..Len(Declared) :
              (Parses(Declared[j])
                 /\ Val(Declared[j].time) * 60 <= TimeOfDay(now))
              => Val(Declared[j].time) <= Val(Declared[i].time) }

FirstOf(S) == CHOOSE i \in S : \A j \in S : i <= j
LastOf(S) == CHOOSE i \in S : \A j \in S : j <= i

\* the entry carries "enabled": false
Disabled(entry) == "enabled" \in DOMAIN entry /\ ~entry.enabled

WellFormed(entry) ==
    /\ "time" \in DOMAIN entry
    /\ ~IsNone(entry.time)
    /\ "temperature" \in DOMAIN entry
    /\ entry.temperature.type = "number"

\* the days of engine eng hold exactly the well-formed entries of the
\* document, and eng has its default temperature
HoldsDocument(eng, doc) ==
    /\ eng.default_temperature = doc.default_temperature
    /\ \A d \in 0..6 :
          /\ Len(eng.days[d]) =
                Cardinality({ i \in 1..Len(doc.days[d]) : WellFormed(doc.days[d][i]) })
          /\ \A i \in 1..Len(doc.days[d]) :
                WellFormed(doc.days[d][i]) =>
                    \E k \in 1..Len(eng.days[d]) :
                        /\ eng.days[d][k].time = Val(doc.days[d][i].time)
                        /\ eng.days[d][k].temperature = doc.days[d][i].temperature.value

\* two engines hold the same schedule: default temperature and entries
SameSchedule(a, b) ==
    /\ a.default_temperature = b.default_temperature
    /\ a.days = b.days

\* C21: a schedule reload replaces the schedule atomically.  After the
\* check_for_updates() of a cycle the schedule (default temperature and all
\* entries) is the one held before, or holds exactly the document now in the
\* file; when there is no file or the file is not JSON it is the one held
\* before.
C21_ReloadIsAtomic ==
    [][(pc = "check" /\ pc' = "fetch") =>
          /\ \/ SameSchedule(schedule', schedule)
             \/ schedule_file.kind = "json" /\ HoldsDocument(schedule', schedule_file.doc)
          /\ schedule_file.kind # "json" => SameSchedule(schedule', schedule)]_vars

\* C22: loading a schedule with malformed entries succeeds and yields
\* exactly the well-formed entries: once load_schedule() has run on a file
\* that is JSON, it has returned True and every day holds exactly the
\* well-formed entries declared for it.
C22_MalformedEntriesDroppedOneByOne ==
    pc \in {"schedule_loaded", "load_failed", "looked_up"} =>
        /\ pc # "load_failed"
        /\ HoldsDocument(schedule, schedule_file.doc)

\* C30: get_expected_temperature(dt) always returns a temperature: when the
\* weekday of dt has entries at or before dt's time of day, that of the
\* latest of them; when it has entries but none at or before dt, that of
\* the last entry of the previous weekday (monday's is sunday) if that day
\* has entries; in every other case the default temperature.
C30_ExpectedTemperatureComputation ==
    pc = "looked_up" =>
        LET today == schedule.days[DayOf(now)]
            day_before == schedule.days[IF DayOf(now) = 0 THEN 6 ELSE DayOf(now) - 1]
            at_or_before == { i \in 1..Len(today) : today[i].time * 60 <= TimeOfDay(now) }
        IN  /\ ~IsNone(res)
            /\ IF at_or_before # {}
               THEN LET latest == CHOOSE i \in at_or_before : \A j \in at_or_before : j <= i
                    IN  /\ \A j \in at_or_before : today[j].time <= today[latest].time
                        /\ Val(res) = today[latest].temperature
               ELSE IF today # << >> /\ day_before # << >>
               THEN Val(res) = day_before[Len(day_before)].temperature
               ELSE Val(res) = schedule.default_temperature

\* C30 witness: monday 05:59:59 with entries at 06:00 and 22:00 on every
\* day: the lookup returned sunday's last temperature
C30_Witness ==
    /\ pc = "looked_up"
    /\ now = At(0, 5, 59, 59)
    /\ Len(schedule.days[0]) = 2
    /\ schedule.days[0][1].time = 360
    /\ Len(schedule.days[6]) = 2
    /\ schedule.days[6][1].temperature = 70
    /\ schedule.days[6][2].temperature = 65
    /\ res = Some(65)

(***************************************************************************)
(* Properties of the lookup from one minute to the next (SpecMidnight).    *)
(***************************************************************************)
\* the second of two lookups a minute apart has been made
LookedUpTwice == pc = "looked_up" /\ ~IsNone(arg)

\* the day of the second lookup has an entry at the time of that lookup
EntryAtNow ==
    \E i \in 1..Len(schedule.days[DayOf(now)]) :
        schedule.days[DayOf(now)][i].time * 60 = TimeOfDay(now)

\* the schedule has at least one entry
HasEntries == \E d \in 0..6 : schedule.days[d] # << >>

\* C39 as stated: for every schedule with at least one entry, if the new
\* day has no entry at 00:00 the expected temperature at 00:00 equals that
\* at 23:59 of the previous day, and the expected temperature changes only
\* at the time of a configured entry.
C39_CarriesOverEveryMidnight ==
    LookedUpTwice =>
        /\ (TimeOfDay(now) = 0 /\ HasEntries /\ ~EntryAtNow) => res = arg
        /\ res # arg => EntryAtNow

\* C39 amended: when the new day has entries, none of them at 00:00, the
\* expected temperature at 00:00 equals that at 23:59 of the previous day;
\* when the new day has no entries it is the default temperature at 00:00,
\* whatever the previous day ended with; and the expected temperature
\* changes only at the time of a configured entry or at the midnight that
\* begins a day without entries.
C39_CarriesOverIntoDayWithEntries ==
    LookedUpTwice =>
        /\ (TimeOfDay(now) = 0 /\ schedule.days[DayOf(now)] # << >> /\ ~EntryAtNow) =>
               res = arg
        /\ (TimeOfDay(now) = 0 /\ schedule.days[DayOf(now)] = << >>) =>
               res = Some(schedule.default_temperature)
        /\ res # arg =>
               \/ EntryAtNow
               \/ TimeOfDay(now) = 0 /\ schedule.days[DayOf(now)] = << >>

\* C39 witness: tuesday 00:00 with entries on monday that end at 65 and one
\* entry on tuesday at 06:00: the lookup returned monday's 65 as it did at
\* 23:59
C39_Witness ==
    /\ LookedUpTwice
    /\ now = At(1, 0, 0, 0)
    /\ Len(schedule.days[1]) = 1
    /\ schedule.days[1][1].time = 360
    /\ Len(schedule.days[0]) = 2
    /\ arg = Some(65)
    /\ res = Some(65)

\* the file is there and is newer than the last successful load
ReloadDue(eng, file) ==
    /\ file.kind # "absent"
    /\ ~IsNone(eng.last_modified)
    /\ file.mtime > Val(eng.last_modified)

\* the document has an entry whose temperature is null
HasNullTemperature(doc) ==
    \E d \in 0..6 : \E i \in 1..Len(doc.days[d]) :
        /\ "time" \in DOMAIN doc.days[d][i]
        /\ "temperature" \in DOMAIN doc.days[d][i]
        /\ doc.days[d][i].temperature.type = "null"

\* C33: at the top of a check cycle the schedule is reloaded iff the file's
\* modification time is greater than the one recorded at the last successful
\* load: when it is not, the engine is left as it is; when it is and the
\* file loads, the engine holds the file's schedule and records the file's
\* modification time.  The recorded time changes only with a successful
\* load, so after a failed reload the reload is still due in the next cycle.
\* A file that is unchanged or cannot be loaded (missing, not JSON, or
\* failing in load_schedule) never changes the schedule in use.
C33_ReloadIffNewerThanLastLoad ==
    [][(pc = "check" /\ pc' = "fetch") =>
          /\ ~ReloadDue(schedule, schedule_file) => schedule' = schedule
          /\ (/\ ReloadDue(schedule, schedule_file)
              /\ schedule_file.kind = "json"
              /\ ~HasNullTemperature(schedule_file.doc)) =>
                 /\ HoldsDocument(schedule', schedule_file.doc)
                 /\ schedule'.last_modified = Some(schedule_file.mtime)
          /\ schedule'.last_modified # schedule.last_modified =>
                 /\ schedule_file.kind = "json"
                 /\ HoldsDocument(schedule', schedule_file.doc)
                 /\ schedule'.last_modified = Some(schedule_file.mtime)
          /\ (/\ ReloadDue(schedule, schedule_file)
              /\ schedule'.last_modified = schedule.last_modified) =>
                 ReloadDue(schedule', schedule_file')
          /\ (\/ schedule_file.kind # "json"
              \/ HasNullTemperature(schedule_file.doc)) =>
                 SameSchedule(schedule', schedule)]_vars

(***************************************************************************)
(* Start-up of the service (Spec).                                         *)
(***************************************************************************)
\* C28: the loop is entered only after a successful start: run() begins only
\* when the controller holds the credential manager's token, that token does
\* not need refresh, and the engine holds the schedule of the file; when
\* the credentials are missing, the initial login fails, get_token() returns
\* nothing or the schedule file cannot be read, the process exits; and a
\* process that exited has run no cycle and issued no vendor command.
C28_LoopOnlyAfterSuccessfulStart ==
    [][/\ (pc # "run" /\ pc' = "run") =>
             /\ ~IsNone(ctrl_token')
             /\ ctrl_token' = auth'.jwt_token
             /\ ~IsNone(auth'.token_expires_at)
             /\ Val(auth'.token_expires_at) - now' >= REFRESH_BUFFER
             /\ schedule_file'.kind = "json"
             /\ HoldsDocument(schedule', schedule_file'.doc)
       /\ (pc = "init_login" /\ pc' # pc /\ IsNone(auth'.jwt_token)) => pc' = "exit"
       /\ (pc = "init_tok" /\ pc' # pc /\ (IsNone(got) \/ schedule_file.kind # "json")) =>
             pc' = "exit"
       /\ pc' = "exit" =>
             /\ ~running'
             /\ cyc'.lookups = 0 /\ cyc'.fetches = 0 /\ cyc'.holds = << >>
             /\ stats' = InitStats
             /\ recent_reverts' = << >>]_vars

\* C28 witness: a credential was obtained, the schedule file is absent, and
\* the process has exited
C28_Witness ==
    /\ pc = "exit"
    /\ ~IsNone(got)
    /\ schedule_file.kind = "absent"
    /\ cyc.fetches = 0

(***************************************************************************)
(* Properties of get_current_temperature_setting (SpecSetting).            *)
(***************************************************************************)
\* the events of the answer that are running, of type hold and carry a hold
\* temperature
ActiveHolds ==
    LET events == Val(arg)[1].events
    IN  { i \in 1..Len(events) :
            /\ events[i].running
            /\ events[i].type = "hold"
            /\ (~IsNone(events[i].heatHoldTemp) \/ ~IsNone(events[i].coolHoldTemp)) }

\* C23: the setpoint reported is that of an active hold whenever the vendor
\* reports one.  With an event that is running, of type hold and carries a
\* hold temperature, the setting is whole degrees of the first such event's
\* heat hold, or of its cool hold when it has no heat hold; with no such
\* event it is that of the runtime's desired heat, else desired cool; with
\* neither, and with no thermostat, the fetch fails.
C23_ActiveHoldTakesPrecedence ==
    pc = "setting" =>
        IF IsNone(arg) \/ Val(arg) = << >> THEN Val(res) = None
        ELSE LET th == Val(arg)[1]
             IN  IF ActiveHolds # {}
                 THEN LET first == th.events[FirstOf(ActiveHolds)]
                      IN  Val(res) = Some((IF ~IsNone(first.heatHoldTemp)
                                           THEN Val(first.heatHoldTemp)
                                           ELSE Val(first.coolHoldTemp)) \div 10)
                 ELSE IF ~IsNone(th.desiredHeat)
                 THEN Val(res) = Some(Val(th.desiredHeat) \div 10)
                 ELSE IF ~IsNone(th.desiredCool)
                 THEN Val(res) = Some(Val(th.desiredCool) \div 10)
                 ELSE Val(res) = None

\* C23 witness: the first event is a running hold without temperatures, the
\* second a running hold with a cool hold only, the runtime has both desired
\* temperatures: the second event's cool hold was reported
C23_Witness ==
    /\ pc = "setting"
    /\ ~IsNone(arg) /\ Val(arg) # << >>
    /\ Len(Val(arg)[1].events) = 2
    /\ Val(arg)[1].events[1] = [running |-> TRUE, type |-> "hold",
                                heatHoldTemp |-> None, coolHoldTemp |-> None]
    /\ Val(arg)[1].events[2] = [running |-> TRUE, type |-> "hold",
                                heatHoldTemp |-> None, coolHoldTemp |-> Some(740)]
    /\ Val(arg)[1].desiredHeat = Some(665)
    /\ Val(arg)[1].desiredCool = Some(765)
    /\ res = Some(Some(74))

(***************************************************************************)
(* Properties of the sensor selector (SpecSelect).                         *)
(***************************************************************************)
\* the number of positions of list l that hold a sensor named nm
NamedCount(l, nm) == Cardinality({ i \in 1..Len(l) : l[i].name = nm })

\* C24: for every non-empty sensor list and every target the selector
\* returns at least one sensor; every returned sensor has the name of an
\* input sensor and no input sensor is returned twice (a name is returned at
\* most as often as the input has it); when all readings are unknown it
\* returns all input sensors, in order.
C24_SelectorReturnsAtLeastOne ==
    (pc = "selected" /\ arg.raw_sensors # << >>) =>
        LET raw == arg.raw_sensors
            sel == Val(res)
        IN  /\ Len(sel) >= 1
            /\ \A k \in 1..Len(sel) :
                  NamedCount(sel, sel[k].name) <= NamedCount(raw, sel[k].name)
            /\ (\A i \in 1..Len(raw) : IsNone(raw[i].temperature)) =>
                  sel = [i \in 1..Len(raw) |-> [id |-> raw[i].id, name |-> raw[i].name]]

\* C24 witness: three sensors without a reading were all returned
C24_Witness ==
    /\ pc = "selected"
    /\ Len(arg.raw_sensors) = 3
    /\ \A i \in 1..3 : IsNone(arg.raw_sensors[i].temperature)
    /\ Len(Val(res)) = 3

\* the positions of the input that hold a readable sensor
ReadablePositions ==
    { i \in 1..Len(arg.raw_sensors) : ~IsNone(arg.raw_sensors[i].temperature) }

TempAt(i) == Val(arg.raw_sensors[i].temperature)

\* the place of readable sensor i among the readable ones from the coolest
\* on, and from the warmest on, sensors of equal temperature in the order of
\* the input
CoolRank(i) ==
    1 + Cardinality({ j \in ReadablePositions :
                        TempAt(j) < TempAt(i) \/ (TempAt(j) = TempAt(i) /\ j < i) })
WarmRank(i) ==
    1 + Cardinality({ j \in ReadablePositions :
                        TempAt(j) > TempAt(i) \/ (TempAt(j) = TempAt(i) /\ j < i) })

\* input sensor i as the selector returns it
Returned(i) ==
    LET s == arg.raw_sensors[i]
    IN  IF ~IsNone(arg.climate_sensor_map)
           /\ s.name \in DOMAIN Val(arg.climate_sensor_map)
        THEN [id |-> Val(arg.climate_sensor_map)[s.name], name |-> s.name]
        ELSE [id |-> s.id, name |-> s.name]

\* the mean of the readable sensors is above the target and none of them is
\* at or below it; below the target and none at or above it
AllAboveTarget ==
    /\ ReadablePositions # {}
    /\ \A i \in ReadablePositions : TempAt(i) > arg.target_temp
AllBelowTarget ==
    /\ ReadablePositions # {}
    /\ \A i \in ReadablePositions : TempAt(i) < arg.target_temp

\* the selection is the first k readable sensors by the given rank
IsFirstByRank(sel, k, Rank(_)) ==
    /\ Len(sel) = k
    /\ \A i \in ReadablePositions : Rank(i) <= k => sel[Rank(i)] = Returned(i)

IsSelection(sel, S) ==
    /\ Len(sel) = Cardinality(S)
    /\ \A i \in S : sel[Cardinality({ j \in S : j <= i })] = Returned(i)

\* the sum of the readable temperatures, in tenths
ReadableTotal ==
    LET total[i \in 0..Len(arg.raw_sensors)] ==
            IF i = 0 THEN 0
            ELSE total[i - 1] + (IF i \in ReadablePositions THEN TempAt(i) ELSE 0)
    IN  total[Len(arg.raw_sensors)]

C32_CliNeverUsesExpiredToken ==
    pc = "cli_requested" =>
        \/ IsNone(store.token_expires_at)
        \/ now <= fromisoformat(Val(store.token_expires_at))

\* the sum of the temperatures of the input sensors at the positions of S
TotalAt(S) ==
    LET total[i \in 0..Len(arg.raw_sensors)] ==
            IF i = 0 THEN 0
            ELSE total[i - 1] + (IF i \in S THEN TempAt(i) ELSE 0)
    IN  total[Len(arg.raw_sensors)]

\* C35: the mean temperature of the selected sensors is at least as close to
\* the target as the mean of all readable sensors (without a climate sensor
\* map the id of a returned sensor is its position in the input, and the
\* distances of the two means are compared by cross-multiplication).
C35_SelectionMeanNoFartherFromTarget ==
    (pc = "selected" /\ IsNone(arg.climate_sensor_map) /\ ReadablePositions # {}) =>
        LET selected == { Val(res)[k].id : k \in 1..Len(Val(res)) }
            n_sel == Cardinality(selected)
            n_all == Cardinality(ReadablePositions)
            off_sel == TotalAt(selected) - arg.target_temp * n_sel
            off_all == TotalAt(ReadablePositions) - arg.target_temp * n_all
        IN  /\ selected \subseteq ReadablePositions
            /\ Abs(off_sel) * n_all <= Abs(off_all) * n_sel

(***************************************************************************)
(* Properties of update_night_schedule (SpecNight).                        *)
(***************************************************************************)
\* hour h is in the window of the call
InNightWindow(h) ==
    IF arg.start_hour = arg.end_hour THEN TRUE
    ELSE IF arg.start_hour > arg.end_hour
         THEN h >= arg.start_hour \/ h < arg.end_hour
         ELSE h >= arg.start_hour /\ h < arg.end_hour

\* the climate of hour h of the window: the hours alternate from start_hour
\* on when there is an alternate climate
NightClimate(h) ==
    IF ~IsNone(arg.alt_climate_ref) /\ ((h + 24 - arg.start_hour) % 24) % 2 = 1
    THEN Val(arg.alt_climate_ref) ELSE arg.climate_ref

\* the schedule is the program's with exactly the slots of the window
\* rewritten
IsNightRewrite(sched) ==
    /\ DOMAIN sched = 1..7
    /\ \A d \in 1..7 : \A slot \in 0..47 :
          sched[d][slot] = IF InNightWindow(slot \div 2)
                           THEN NightClimate(slot \div 2)
                           ELSE NightProgram.schedule[d][slot]

\* C34: update_night_schedule rewrites, for every day, exactly the two
\* half-hour slots of each hour of the window and leaves every other slot
\* unchanged; the rewritten slots are climate_ref, or alternate by position
\* in the window starting with climate_ref at start_hour; when a climate is
\* not in the program it fails and posts nothing; with dry_run it posts
\* nothing.
C34_NightWindowRewrite ==
    pc = "night_done" =>
        LET r == Val(res)
            known == /\ arg.climate_ref # "nap"
                     /\ arg.alt_climate_ref # Some("nap")
        IN  /\ ~known => (~r.ok /\ r.posted = << >> /\ IsNone(r.returned))
            /\ arg.dry_run => r.posted = << >>
            /\ Len(r.posted) <= 1
            /\ \A k \in 1..Len(r.posted) : IsNightRewrite(r.posted[k].schedule)
            /\ ~IsNone(r.returned) => IsNightRewrite(Val(r.returned).schedule)
            /\ r.ok => (r.posted # << >> \/ ~IsNone(r.returned))

(***************************************************************************)
(* Properties of one cycle against the vendor's setpoint (SpecCycle).      *)
(***************************************************************************)
\* C29: end to end, a cycle that read the setpoint treats it as matching
\* (and sends no hold) iff the setpoint the vendor reported, in tenths, is
\* at most 0.5 degrees from the expected temperature: a setpoint 0.9 above
\* the expected temperature is not treated as matching, one 0.4 below is.
C29_EndToEndHalfDegreeTolerance ==
    (pc = "threshold" /\ ~IsNone(current_temp)) =>
        LET expected == Val(expected_temp) * 10
        IN  /\ cyc.result = "matched" <=>
                  (arg - expected <= 5 /\ expected - arg <= 5)
            /\ cyc.result = "matched" => cyc.holds = << >>
            /\ arg = expected + 9 => cyc.result # "matched"
            /\ arg = expected - 4 => cyc.result = "matched"

(***************************************************************************)
(* Properties of the credential manager (SpecAuth).                        *)
(***************************************************************************)
\* C5 as stated: needs_refresh() is true exactly when no expiry is known or
\* now >= expiresAt - refreshBuffer, the instant now = expiresAt -
\* refreshBuffer included.
C5_RefreshAtBufferInstant ==
    needs_refresh(auth, now) <=>
        \/ IsNone(auth.token_expires_at)
        \/ now >= Val(auth.token_expires_at) - 300

\* C5 amended: needs_refresh() is true exactly when no expiry is known or
\* now > expiresAt - refreshBuffer; at the instant now = expiresAt -
\* refreshBuffer it is still false.  is_token_valid() is false exactly when
\* now >= expiresAt or no token or no expiry is held.
C5_RefreshStrictlyInsideBuffer ==
    /\ needs_refresh(auth, now) <=>
          \/ IsNone(auth.token_expires_at)
          \/ now > Val(auth.token_expires_at) - 300
    /\ ~is_token_valid(auth, now) <=>
          \/ IsNone(auth.jwt_token)
          \/ IsNone(auth.token_expires_at)
          \/ now >= Val(auth.token_expires_at)

\* C5 witness: the instant now = expiresAt - refreshBuffer, no refresh due
C5_Witness ==
    /\ ~IsNone(auth.token_expires_at)
    /\ now = Val(auth.token_expires_at) - 300
    /\ ~needs_refresh(auth, now)
    /\ is_token_valid(auth, now)

\* C6: a refresh_token() that fails leaves the credential as it was: no
\* failed login attempt changes the in-memory token, expiresAt or
\* last-refreshed timestamp, or the credential file.
C6_FailedRefreshChangesNothing ==
    [][(pc = "refresh_token" /\ (pc' = "refresh_token" \/ ~rv')) =>
          (auth' = auth /\ store' = store /\ next_token' = next_token)]_vars

\* C6 witness: a refresh failed while a credential obtained earlier is held
C6_Witness ==
    /\ pc = "idle"
    /\ ~rv
    /\ ~IsNone(login_at)
    /\ cyc.logins >= 4
    /\ auth.jwt_token = Some(1)

\* C8: after a successful login at time t the credential has expiresAt =
\* t + 3600 and issuedAt = t, and needs_refresh() is false from then until
\* expiresAt - 300.
C8_FreshCredentialValid ==
    ~IsNone(login_at) =>
        /\ auth.token_expires_at = Some(Val(login_at) + 3600)
        /\ auth.last_refreshed = login_at
        /\ Val(login_at) <= now
        /\ now < Val(login_at) + 3600 - 300 => ~needs_refresh(auth, now)

\* C8 witness: the last instant before the refresh buffer of a credential
\* obtained by a login
C8_Witness ==
    /\ ~IsNone(login_at)
    /\ now = Val(login_at) + 3600 - 300 - 1
    /\ ~needs_refresh(auth, now)

\* C9: after a refresh_token() that reported success the credential file
\* holds exactly the in-memory credential, so that load_token() in a new
\* process restores it.
C9_StoreHoldsCredentialAfterRefresh ==
    (pc = "idle" /\ rv /\ ~IsNone(login_at)) =>
        load_token(NoAuth, store) = [ok |-> TRUE, auth |-> auth]

(***************************************************************************)
(* The controller's token (Spec).                                          *)
(***************************************************************************)
\* C37: whenever the loop issues a vendor call the controller's token is
\* the credential manager's current token; in a cycle that refreshed, the
\* controller has the new token from the check on, before the fetch; and
\* the controller's token changes only where a token that get_token()
\* returned is handed to it, so a failed refresh leaves it as it was.
C37_ControllerTokenFollowsManager ==
    /\ [](pc \in VendorCallPcs => ctrl_token = auth.jwt_token)
    /\ []((pc \in {"check", "fetch"} /\ cyc.refresh_due) =>
             /\ ctrl_token = auth.jwt_token
             /\ ctrl_token = Some(next_token - 1)
             /\ login_at = auth.last_refreshed)
    /\ [](cyc.result = "refresh_failed" => pc \notin {"rtin_tok", "check"})
    /\ [][ctrl_token' # ctrl_token =>
             /\ pc \in {"init_tok", "rtin_tok"}
             /\ ~IsNone(got)
             /\ ctrl_token' = got]_vars

\* C37 witness: the fetch of a cycle that refreshed is about to be made
\* with the token of the login that cycle made
C37_Witness ==
    /\ pc = "fetch"
    /\ cyc.refresh_due
    /\ cyc.logins > 0
    /\ ~IsNone(ctrl_token)
    /\ Val(ctrl_token) = next_token - 1
    /\ ctrl_token = auth.jwt_token

(***************************************************************************)
(* The status counters (Spec).                                             *)
(***************************************************************************)
\* the step is the fetch of the setpoint, and it succeeded
FetchSucceeds ==
    /\ pc = "fetch"
    /\ pc' \in {"threshold", "set_get"}
    /\ ~IsNone(current_temp')

\* the step is a hold command that succeeded
HoldSucceeds ==
    /\ pc = "set_post"
    /\ pc' = "threshold"
    /\ cyc'.result = "corrected"

\* the step is a fetch or a hold command that failed or raised
VendorCallFails ==
    /\ pc \in VendorCallPcs
    /\ pc' = "threshold"
    /\ cyc'.result \in FailedResults

\* the counters against each other and against the correction history
CountersAgree ==
    /\ stats.reverts_performed <= stats.checks_performed
    /\ Len(recent_reverts) = Min(REVERTS_MAXLEN, stats.reverts_performed)

\* C38: the status counters are consistent in every state: reverts_performed
\* is at most checks_performed and the correction history holds
\* min(60, reverts_performed) timestamps; checks_performed rises by one with
\* every successful fetch of the setpoint, reverts_performed with every
\* successful hold command and errors with every fetch or hold command that
\* failed or raised, and by nothing else, so that each counts exactly those
\* cycles; at the end of a check the counters are those of the start of the
\* cycle plus what the cycle did; and no counter ever decreases.
C38_StatusCountersConsistent ==
    /\ []CountersAgree
    /\ [](pc = "threshold" =>
             /\ stats.checks_performed =
                    cyc.checks0 + (IF cyc.fetches = 1 /\ ~IsNone(current_temp)
                                   THEN 1 ELSE 0)
             /\ stats.reverts_performed =
                    cyc.reverts0 + (IF cyc.result = "corrected" THEN 1 ELSE 0))
    /\ [][/\ stats'.checks_performed =
                 stats.checks_performed + (IF FetchSucceeds THEN 1 ELSE 0)
          /\ stats'.reverts_performed =
                 stats.reverts_performed + (IF HoldSucceeds THEN 1 ELSE 0)
          /\ stats'.errors =
                 stats.errors + (IF VendorCallFails THEN 1 ELSE 0)
          /\ stats'.token_refreshes >= stats.token_refreshes]_vars

\* C38 witness: a check has ended with a correction after an earlier cycle
\* failed, and every counter has moved
C38_Witness ==
    /\ pc = "threshold"
    /\ cyc.result = "corrected"
    /\ stats.checks_performed >= 2
    /\ stats.reverts_performed >= 1
    /\ stats.errors >= 1
    /\ Len(recent_reverts) = stats.reverts_performed

(***************************************************************************)
(* Properties of temperatures_match (SpecMatch).                           *)
(***************************************************************************)
\* C4: temperatures_match(current, expected) is true iff the two are at
\* most 0.5 degrees (5 tenths) apart; exactly 0.5 apart matches, a whole
\* degree apart does not.
C4_MatchIffWithinHalfDegree ==
    pc = "applied" =>
        /\ Val(res) <=> (arg[1] - arg[2] <= 5 /\ arg[2] - arg[1] <= 5)
        /\ (arg[1] - arg[2] = 5 \/ arg[2] - arg[1] = 5) => Val(res)
        /\ (arg[1] - arg[2] = 10 \/ arg[2] - arg[1] = 10) => ~Val(res)

\* C4 witness: a setting exactly 0.5 degrees above the expected one matched
C4_Witness ==
    /\ pc = "applied"
    /\ arg = <<685, 680>>
    /\ res = Some(TRUE)

====
